---- MODULE Spec2Model ----
(***************************************************************************)
(* Model of the appointment engine of scheduling-api: the conflict         *)
(* detector, the status transition authority, the orchestration of         *)
(* Create / Update / UpdateStatus / Delete through handler, service and    *)
(* repository, and the validation and expansion of recurring appointments  *)
(* into occurrences and appointments.                                      *)
(*                                                                         *)
(* Time: ScheduledStart / ScheduledEnd are counted in slots of 30 minutes  *)
(* since the zero time (0 is Go's zero time.Time, "not provided").         *)
(* ConfirmedAt / CancelledAt / CompletedAt are readings of the clock now   *)
(* (0 is a nil pointer).  Every time.Time of a request and of the tables   *)
(* is in one location (UTC), and seconds are zero.                         *)
(***************************************************************************)
EXTENDS Integers, Sequences, FiniteSets, TLC

VARIABLES
    appointments,   \* the appointments table: a sequence, row i has ID i
    now,            \* time.Now()
    inflight,       \* per concurrent request: what it read or checked before its write
    stale,          \* IDs inserted after another insert followed their conflict check
    probe,          \* inputs and results of the conflict detector run on its own
    recurring,      \* a recurring appointment and the occurrences generated from it
    notifications   \* a notification, its queue item and the worker sending it

vars == <<appointments, now, inflight, stale, probe, recurring, notifications>>

----------------------------------------------------------------------------
(* Bounds of the model *)

\* rows of the appointments table
MaxAppointments == 2
\* appointments followed through their status changes
MaxTracked == 1
\* the last 30-minute slot a request may name
MaxTime == 6
\* the last reading of the clock
MaxNow == 2
\* Create requests in flight at the same time
MaxCreators == 2
\* the last calendar day a request may name (the first one is day 0)
MaxDay == 1
\* the last day an EndDate of a recurring appointment names (2025-09-01)
MaxEndDay == 92
\* the MaxOccurrences of a recurring appointment
MaxCount == 4
\* the day of the far end date of a recurring appointment
LongEndDay == 1100
\* the day of the far start date of a recurring appointment
FarStartDay == 3640

----------------------------------------------------------------------------
(* Constants and tables of the program *)

\* time.Hour, in slots of 30 minutes
MinDuration == 2
SlotsPerDay == 24 * MinDuration

StatusPending == "pending"
StatusConfirmed == "confirmed"
StatusCancelled == "cancelled"
StatusCompleted == "completed"
StatusRescheduled == "rescheduled"
Statuses == {StatusPending, StatusConfirmed, StatusCancelled, StatusCompleted,
             StatusRescheduled}

\* users: the ids of the users table are independent of the ids of the
\* suppliers and employees tables
Users == { [ID |-> 1, Role |-> "supplier"],
           [ID |-> 2, Role |-> "employee"],
           [ID |-> 3, Role |-> "supplier"],
           [ID |-> 4, Role |-> "employee"],
           [ID |-> 5, Role |-> "admin"] }
Suppliers == { [ID |-> 1, UserID |-> 3], [ID |-> 2, UserID |-> 1] }
Employees == { [ID |-> 1, UserID |-> 4], [ID |-> 2, UserID |-> 2] }
Operations == { [ID |-> 1, OpeningHour |-> 2, ClosingHour |-> 6] }
Products == { [ID |-> 1] }

IDsOf(table) == { r.ID : r \in table }
RowOf(table, id) == CHOOSE r \in table : r.ID = id

Times == 1..MaxTime
ZeroTime == 0
NilTime == 0

----------------------------------------------------------------------------
(* models.Appointment.Validate *)

\* mutant: the length of the appointment is not checked
ValidateAnyDuration(a) ==
    IF a.SupplierID = 0 THEN "supplier is required"
    ELSE IF a.EmployeeID = 0 THEN "employee is required"
    ELSE IF a.OperationID = 0 THEN "operation is required"
    ELSE IF a.ProductID = 0 THEN "product is required"
    ELSE IF a.ScheduledStart = ZeroTime THEN "scheduled start time is required"
    ELSE IF a.ScheduledEnd = ZeroTime THEN "scheduled end time is required"
    ELSE IF a.ScheduledStart > a.ScheduledEnd
        THEN "scheduled start time must be before scheduled end time"
    ELSE IF a.QuantityToDeliver <= 0
        THEN "quantity to deliver must be greater than zero"
    ELSE ""

Validate(a) ==
    IF a.SupplierID = 0 THEN "supplier is required"
    ELSE IF a.EmployeeID = 0 THEN "employee is required"
    ELSE IF a.OperationID = 0 THEN "operation is required"
    ELSE IF a.ProductID = 0 THEN "product is required"
    ELSE IF a.ScheduledStart = ZeroTime THEN "scheduled start time is required"
    ELSE IF a.ScheduledEnd = ZeroTime THEN "scheduled end time is required"
    ELSE IF a.ScheduledStart > a.ScheduledEnd
        THEN "scheduled start time must be before scheduled end time"
    ELSE IF a.QuantityToDeliver <= 0
        THEN "quantity to deliver must be greater than zero"
    ELSE IF a.ScheduledEnd - a.ScheduledStart < MinDuration
        THEN "appointment must be at least 1 hour long"
    ELSE ""

----------------------------------------------------------------------------
(* repository: HasConflict *)

\* mutant: the third clause written with closed bounds
ThreeClauseClosed(s, e, S, E) ==
    \/ (s < E /\ e > S)
    \/ (s >= S /\ s < E)
    \/ (e >= S /\ e <= E)

\* the WHERE clause on the times of a row [s, e) for a candidate [S, E)
ThreeClause(s, e, S, E) ==
    \/ (s < E /\ e > S)
    \/ (s >= S /\ s < E)
    \/ (e > S /\ e <= E)

\* the rows a query sees: the ones that are not soft deleted
Rows(db) == { db[i] : i \in { j \in DOMAIN db : db[j].DeletedAt = NilTime } }

\* mutant: completed appointments are left out like cancelled ones
EmployeeConflictsActiveOnly(db, a) ==
    { r \in Rows(db) :
        /\ r.EmployeeID = a.EmployeeID /\ r.ID # a.ID
        /\ r.Status \notin {StatusCancelled, StatusCompleted}
        /\ ThreeClause(r.ScheduledStart, r.ScheduledEnd,
                       a.ScheduledStart, a.ScheduledEnd) }

EmployeeConflicts(db, a) ==
    { r \in Rows(db) :
        /\ r.EmployeeID = a.EmployeeID /\ r.ID # a.ID
        /\ r.Status \notin {StatusCancelled}
        /\ ThreeClause(r.ScheduledStart, r.ScheduledEnd,
                       a.ScheduledStart, a.ScheduledEnd) }

SupplierConflicts(db, a) ==
    { r \in Rows(db) :
        /\ r.SupplierID = a.SupplierID /\ r.ID # a.ID
        /\ r.Status \notin {StatusCancelled}
        /\ ThreeClause(r.ScheduledStart, r.ScheduledEnd,
                       a.ScheduledStart, a.ScheduledEnd) }

\* mutant: the row of the candidate itself is not left out
HasConflictOwnIncluded(db, a) ==
    \E r \in Rows(db) :
        /\ r.EmployeeID = a.EmployeeID \/ r.SupplierID = a.SupplierID
        /\ r.Status \notin {StatusCancelled}
        /\ ThreeClause(r.ScheduledStart, r.ScheduledEnd,
                       a.ScheduledStart, a.ScheduledEnd)

\* mutant: the supplier query is never run
HasConflictEmployeeOnly(db, a) ==
    Cardinality(EmployeeConflicts(db, a)) > 0

HasConflict(db, a) ==
    IF Cardinality(EmployeeConflicts(db, a)) > 0 THEN TRUE
    ELSE Cardinality(SupplierConflicts(db, a)) > 0

----------------------------------------------------------------------------
(* repository: Create, Update, UpdateStatus *)

Result(err, db) == [err |-> err, db |-> db]

\* FindByID finds the row: the id of a row is its place in the table
Found(db, id) == id \in DOMAIN db /\ db[id].DeletedAt = NilTime

\* tx.Create: the row gets the next id of the table
Insert(db, a) == Append(db, [a EXCEPT !.ID = Len(db) + 1])

\* mutant: Create inserts without asking HasConflict
RepoCreateCheckValidateOnly(db, a) ==
    IF Validate(a) # "" THEN Validate(a) ELSE ""

\* the part of Create before the transaction: Validate and HasConflict
RepoCreateCheck(db, a) ==
    IF Validate(a) # "" THEN Validate(a)
    ELSE IF HasConflict(db, a)
        THEN "appointment conflicts with an existing appointment"
    ELSE ""

RepoCreate(db, a) ==
    IF RepoCreateCheck(db, a) # "" THEN Result(RepoCreateCheck(db, a), db)
    ELSE Result("", Insert(db, a))

\* mutant: only the start is compared with the stored row
TimesChangedStartOnly(existing, a) ==
    existing.ScheduledStart # a.ScheduledStart

TimesChanged(existing, a) ==
    \/ existing.ScheduledStart # a.ScheduledStart
    \/ existing.ScheduledEnd # a.ScheduledEnd

RepoUpdate(db, a) ==
    IF Validate(a) # "" THEN Result(Validate(a), db)
    ELSE IF ~Found(db, a.ID) THEN Result("appointment not found", db)
    ELSE IF TimesChanged(db[a.ID], a) /\ HasConflict(db, a)
        THEN Result("updated appointment conflicts with an existing appointment", db)
    ELSE Result("", [db EXCEPT ![a.ID] = a])

\* mutant: the completion time is never written
StampWithoutCompleted(appointment, status, reason, t) ==
    LET a == [appointment EXCEPT !.Status = status] IN
    CASE status = StatusConfirmed -> [a EXCEPT !.ConfirmedAt = t]
      [] status = StatusCancelled ->
            [a EXCEPT !.CancelledAt = t, !.CancellationReason = reason]
      [] OTHER -> a

\* mutant: the reason of a cancellation is not stored
StampWithoutReason(appointment, status, reason, t) ==
    LET a == [appointment EXCEPT !.Status = status] IN
    CASE status = StatusConfirmed -> [a EXCEPT !.ConfirmedAt = t]
      [] status = StatusCancelled -> [a EXCEPT !.CancelledAt = t]
      [] status = StatusCompleted -> [a EXCEPT !.CompletedAt = t]
      [] OTHER -> a

Stamp(appointment, status, reason, t) ==
    LET a == [appointment EXCEPT !.Status = status] IN
    CASE status = StatusConfirmed -> [a EXCEPT !.ConfirmedAt = t]
      [] status = StatusCancelled ->
            [a EXCEPT !.CancelledAt = t, !.CancellationReason = reason]
      [] status = StatusCompleted -> [a EXCEPT !.CompletedAt = t]
      [] OTHER -> a

RepoUpdateStatus(db, id, status, reason, t) ==
    IF ~Found(db, id) THEN Result("appointment not found", db)
    ELSE Result("", [db EXCEPT ![id] = Stamp(db[id], status, reason, t)])

\* Delete soft deletes the row: it stays in the table with the time of the
\* deletion, and no row is no error
RepoDelete(db, id, t) ==
    IF ~Found(db, id) THEN Result("", db)
    ELSE Result("", [db EXCEPT ![id].DeletedAt = t])

----------------------------------------------------------------------------
(* service: Create, Update, UpdateStatus, Delete *)

TimeOfDay(t) == t % SlotsPerDay

\* mutant: an appointment may not end at the closing time itself
OutOfHoursExclusive(a, operation) ==
    \/ TimeOfDay(a.ScheduledStart) < TimeOfDay(operation.OpeningHour)
    \/ TimeOfDay(a.ScheduledEnd) >= TimeOfDay(operation.ClosingHour)

OutOfHours(a, operation) ==
    \/ TimeOfDay(a.ScheduledStart) < TimeOfDay(operation.OpeningHour)
    \/ TimeOfDay(a.ScheduledEnd) > TimeOfDay(operation.ClosingHour)

\* mutant: the product is looked up first
ReferenceErrorProductFirst(a) ==
    IF a.ProductID \notin IDsOf(Products) THEN "invalid product"
    ELSE IF a.SupplierID \notin IDsOf(Suppliers) THEN "invalid supplier"
    ELSE IF a.EmployeeID \notin IDsOf(Employees) THEN "invalid employee"
    ELSE IF a.OperationID \notin IDsOf(Operations) THEN "invalid operation"
    ELSE ""

ReferenceError(a) ==
    IF a.SupplierID \notin IDsOf(Suppliers) THEN "invalid supplier"
    ELSE IF a.EmployeeID \notin IDsOf(Employees) THEN "invalid employee"
    ELSE IF a.OperationID \notin IDsOf(Operations) THEN "invalid operation"
    ELSE IF a.ProductID \notin IDsOf(Products) THEN "invalid product"
    ELSE ""

\* everything Create checks before it reaches the repository
ServiceCreateCheck(a) ==
    IF ReferenceError(a) # "" THEN ReferenceError(a)
    ELSE IF OutOfHours(a, RowOf(Operations, a.OperationID))
        THEN "appointment must be within operation hours"
    ELSE ""

\* mutant: an unset status is stored as it is
DefaultStatusUnset(a) == a

DefaultStatus(a) ==
    IF a.Status = "" THEN [a EXCEPT !.Status = StatusPending] ELSE a

ServiceCreate(db, a) ==
    IF ServiceCreateCheck(a) # "" THEN Result(ServiceCreateCheck(a), db)
    ELSE RepoCreate(db, DefaultStatus(a))

\* mutant: only cancelled appointments are closed to updates
ImmutableStateCancelledOnly(existing) ==
    existing.Status = StatusCancelled

\* mutant: only completed appointments are closed to updates
ImmutableStateCompletedOnly(existing) ==
    existing.Status = StatusCompleted

\* "Check if status allows updates"
ImmutableState(existing) ==
    existing.Status = StatusCancelled \/ existing.Status = StatusCompleted

\* the rest of Update once the references resolved: the window is validated
\* again and the repository updates the row
ServiceUpdateRest(db, a) ==
    IF OutOfHours(a, RowOf(Operations, a.OperationID))
        THEN Result("appointment must be within operation hours", db)
    ELSE RepoUpdate(db, a)

ServiceUpdate(db, a) ==
    IF ~Found(db, a.ID) THEN Result("appointment not found", db)
    ELSE IF ImmutableState(db[a.ID])
        THEN Result("cannot update cancelled or completed appointments", db)
    ELSE IF ReferenceError(a) # "" THEN Result(ReferenceError(a), db)
    ELSE ServiceUpdateRest(db, a)

\* UpdateStatus hands the change to the repository
ServiceUpdateStatus(db, id, status, reason, t) ==
    RepoUpdateStatus(db, id, status, reason, t)

\* Delete hands the deletion to the repository
ServiceDelete(db, id, t) == RepoDelete(db, id, t)

----------------------------------------------------------------------------
(* handlers: the status transition authority *)

\* mutant: cancelling a pending appointment is not tied to the supplier role
hasStatusChangePermissionAnyRole(user, appointment, newStatus) ==
    IF user.Role = "admin" THEN TRUE
    ELSE CASE appointment.Status = StatusPending ->
                IF newStatus = StatusConfirmed /\ user.Role = "employee" THEN TRUE
                ELSE IF newStatus = StatusCancelled
                    THEN user.ID = appointment.SupplierID
                ELSE FALSE
           [] appointment.Status = StatusConfirmed ->
                IF newStatus = StatusCompleted /\ user.Role = "employee"
                    THEN user.ID = appointment.EmployeeID
                ELSE IF newStatus \in {StatusCancelled, StatusRescheduled}
                        /\ user.Role = "supplier"
                    THEN user.ID = appointment.SupplierID
                ELSE FALSE
           [] appointment.Status = StatusCancelled -> FALSE
           [] appointment.Status = StatusCompleted -> FALSE
           [] appointment.Status = StatusRescheduled ->
                IF newStatus = StatusPending /\ user.Role = "supplier"
                    THEN user.ID = appointment.SupplierID
                ELSE FALSE
           [] OTHER -> FALSE

hasStatusChangePermission(user, appointment, newStatus) ==
    IF user.Role = "admin" THEN TRUE
    ELSE CASE appointment.Status = StatusPending ->
                IF newStatus = StatusConfirmed /\ user.Role = "employee" THEN TRUE
                ELSE IF newStatus = StatusCancelled /\ user.Role = "supplier"
                    THEN user.ID = appointment.SupplierID
                ELSE FALSE
           [] appointment.Status = StatusConfirmed ->
                IF newStatus = StatusCompleted /\ user.Role = "employee"
                    THEN user.ID = appointment.EmployeeID
                ELSE IF newStatus \in {StatusCancelled, StatusRescheduled}
                        /\ user.Role = "supplier"
                    THEN user.ID = appointment.SupplierID
                ELSE FALSE
           [] appointment.Status = StatusCancelled -> FALSE
           [] appointment.Status = StatusCompleted -> FALSE
           [] appointment.Status = StatusRescheduled ->
                IF newStatus = StatusPending /\ user.Role = "supplier"
                    THEN user.ID = appointment.SupplierID
                ELSE FALSE
           [] OTHER -> FALSE

----------------------------------------------------------------------------
(* handlers: Create, Update, UpdateStatus, Delete *)

\* binding:"required" on every field but notes, min=1 on the quantity
CreateBindOK(req) ==
    /\ req.SupplierID # 0 /\ req.EmployeeID # 0
    /\ req.OperationID # 0 /\ req.ProductID # 0
    /\ req.ScheduledStart # ZeroTime /\ req.ScheduledEnd # ZeroTime
    /\ req.QuantityToDeliver >= 1

NewAppointment(req) ==
    [ ID |-> 0,
      SupplierID |-> req.SupplierID,
      EmployeeID |-> req.EmployeeID,
      OperationID |-> req.OperationID,
      ProductID |-> req.ProductID,
      ScheduledStart |-> req.ScheduledStart,
      ScheduledEnd |-> req.ScheduledEnd,
      Status |-> StatusPending,
      QuantityToDeliver |-> req.QuantityToDeliver,
      ConfirmedAt |-> NilTime,
      CancelledAt |-> NilTime,
      CompletedAt |-> NilTime,
      CancellationReason |-> "",
      DeletedAt |-> NilTime ]

HandleCreate(db, user, req) ==
    IF ~CreateBindOK(req) THEN Result("Invalid request", db)
    ELSE ServiceCreate(db, NewAppointment(req))

\* "Update appointment fields that were provided"
Merge(existing, req) ==
    [ existing EXCEPT
        !.SupplierID = IF req.SupplierID # 0 THEN req.SupplierID ELSE @,
        !.EmployeeID = IF req.EmployeeID # 0 THEN req.EmployeeID ELSE @,
        !.OperationID = IF req.OperationID # 0 THEN req.OperationID ELSE @,
        !.ProductID = IF req.ProductID # 0 THEN req.ProductID ELSE @,
        !.ScheduledStart = IF req.ScheduledStart # ZeroTime
                             THEN req.ScheduledStart ELSE @,
        !.ScheduledEnd = IF req.ScheduledEnd # ZeroTime THEN req.ScheduledEnd ELSE @,
        !.Status = IF req.Status # "" THEN req.Status ELSE @,
        !.QuantityToDeliver = IF req.QuantityToDeliver > 0
                                THEN req.QuantityToDeliver ELSE @,
        !.CancellationReason = IF req.CancellationReason # ""
                                 THEN req.CancellationReason ELSE @ ]

\* the test a supplier passes in Update and in Delete: "In a real app, you'd
\* fetch supplier ID for this user", var supplierID uint = 0
SupplierMayChange(user, existingAppointment) ==
    LET supplierID == 0
    IN  ~(supplierID # 0 /\ supplierID # existingAppointment.SupplierID)

HandleUpdate(db, user, id, req) ==
    IF ~Found(db, id) THEN Result("appointment not found", db)
    ELSE IF user.Role # "admin" /\ user.Role # "supplier"
        THEN Result("Only admins and the appointment's supplier can update appointments",
                    db)
    ELSE IF user.Role = "supplier" /\ ~SupplierMayChange(user, db[id])
        THEN Result("You don't have permission to update this appointment", db)
    ELSE IF req.QuantityToDeliver < 1 THEN Result("Invalid request", db)
    ELSE ServiceUpdate(db, Merge(db[id], req))

HandleDelete(db, user, id, t) ==
    IF ~Found(db, id) THEN Result("appointment not found", db)
    ELSE IF user.Role # "admin" /\ user.Role # "supplier"
        THEN Result("Only admins and the appointment's supplier can delete appointments",
                    db)
    ELSE IF user.Role = "supplier" /\ ~SupplierMayChange(user, db[id])
        THEN Result("You don't have permission to delete this appointment", db)
    ELSE ServiceDelete(db, id, t)

HandleUpdateStatus(db, user, id, req, t) ==
    IF ~Found(db, id) THEN Result("appointment not found", db)
    ELSE IF req.Status = "" THEN Result("Invalid request", db)
    ELSE IF ~hasStatusChangePermission(user, db[id], req.Status)
        THEN Result("You don't have permission to change the status", db)
    ELSE ServiceUpdateStatus(db, id, req.Status, req.Reason, t)

----------------------------------------------------------------------------
(* requests *)

\* an id no table holds
MissingIDs == {3}
Reasons == {"", "late"}

CreateRequests ==
    [ SupplierID : IDsOf(Suppliers) \cup MissingIDs,
      EmployeeID : IDsOf(Employees),
      OperationID : IDsOf(Operations),
      ProductID : IDsOf(Products),
      ScheduledStart : Times,
      ScheduledEnd : Times,
      QuantityToDeliver : {1} ]

\* requests that move an appointment in time or to another supplier or
\* employee
MoveRequests ==
    [ SupplierID : {0} \cup IDsOf(Suppliers),
      EmployeeID : {0} \cup IDsOf(Employees),
      OperationID : {0},
      ProductID : {0},
      ScheduledStart : {ZeroTime} \cup Times,
      ScheduledEnd : {ZeroTime} \cup Times,
      Status : {""},
      QuantityToDeliver : {1},
      CancellationReason : {""} ]

\* requests that carry a status, with or without a new end
RestatusRequests ==
    [ SupplierID : {0},
      EmployeeID : {0},
      OperationID : {0},
      ProductID : {0},
      ScheduledStart : {ZeroTime},
      ScheduledEnd : {ZeroTime, MaxTime},
      Status : {""} \cup Statuses,
      QuantityToDeliver : {1},
      CancellationReason : {""} ]

UpdateRequests == MoveRequests \cup RestatusRequests

\* requests that move an appointment or cancel it
ScheduleRequests ==
    MoveRequests \cup
    { r \in RestatusRequests : r.Status = StatusCancelled /\ r.ScheduledEnd = ZeroTime }

UpdateStatusRequests == [ Status : Statuses, Reason : Reasons ]

\* times of day around the business hours, on every day of the model
WindowTimes ==
    { d * SlotsPerDay + s : d \in 0..MaxDay, s \in 0..(MaxTime + 1) } \ {ZeroTime}

\* Create requests: with ids that resolve at any time of any day, and with
\* every combination of resolving and missing ids within the hours, across
\* the opening and past the closing
WindowCreateRequests ==
    [ SupplierID : {1},
      EmployeeID : {1},
      OperationID : IDsOf(Operations),
      ProductID : IDsOf(Products),
      ScheduledStart : WindowTimes,
      ScheduledEnd : WindowTimes,
      QuantityToDeliver : {1} ]
    \cup
    [ SupplierID : {1} \cup MissingIDs,
      EmployeeID : {1} \cup MissingIDs,
      OperationID : IDsOf(Operations) \cup MissingIDs,
      ProductID : IDsOf(Products) \cup MissingIDs,
      ScheduledStart : {1, 2},
      ScheduledEnd : {4, MaxTime + 1},
      QuantityToDeliver : {1} ]

\* Update requests that move an appointment to any time of any day
WindowUpdateRequests ==
    [ SupplierID : {0},
      EmployeeID : {0},
      OperationID : {0},
      ProductID : {0},
      ScheduledStart : {ZeroTime} \cup WindowTimes,
      ScheduledEnd : {ZeroTime} \cup WindowTimes,
      Status : {""},
      QuantityToDeliver : {0, 1},
      CancellationReason : {""} ]

\* Create requests of both suppliers, at the start and at the end of the
\* business hours
AccessCreateRequests ==
    [ SupplierID : IDsOf(Suppliers),
      EmployeeID : IDsOf(Employees),
      OperationID : IDsOf(Operations),
      ProductID : IDsOf(Products),
      ScheduledStart : {2, 4},
      ScheduledEnd : {4, MaxTime},
      QuantityToDeliver : {1} ]

\* Update requests that move the end, change the quantity, or give the
\* appointment to the other employee
AccessUpdateRequests ==
    [ SupplierID : {0},
      EmployeeID : {0} \cup IDsOf(Employees),
      OperationID : {0},
      ProductID : {0},
      ScheduledStart : {ZeroTime},
      ScheduledEnd : {ZeroTime, MaxTime - 1, MaxTime},
      Status : {""},
      QuantityToDeliver : {1, 2},
      CancellationReason : {""} ]

----------------------------------------------------------------------------
(* the requests, served one at a time *)

Create(user, req) ==
    /\ Len(appointments) < MaxAppointments
    /\ appointments' = HandleCreate(appointments, user, req).db
    /\ UNCHANGED <<now, inflight, stale, probe, recurring, notifications>>

Update(user, id, req) ==
    /\ appointments' = HandleUpdate(appointments, user, id, req).db
    /\ UNCHANGED <<now, inflight, stale, probe, recurring, notifications>>

UpdateStatus(user, id, req) ==
    /\ appointments' = HandleUpdateStatus(appointments, user, id, req, now).db
    /\ UNCHANGED <<now, inflight, stale, probe, recurring, notifications>>

Delete(user, id) ==
    /\ appointments' = HandleDelete(appointments, user, id, now).db
    /\ UNCHANGED <<now, inflight, stale, probe, recurring, notifications>>

Tick ==
    /\ now < MaxNow
    /\ now' = now + 1
    /\ UNCHANGED <<appointments, inflight, stale, probe, recurring, notifications>>

Creators == 1..MaxCreators
Idle == [phase |-> "idle"]
NoProbe == [phase |-> "off"]
NoTemplate == [phase |-> "off"]
NoNotifications == [phase |-> "off"]

Init ==
    /\ appointments = <<>>
    /\ now = 1
    /\ inflight = [p \in Creators |-> Idle]
    /\ stale = {}
    /\ notifications = NoNotifications
    /\ probe = NoProbe
    /\ recurring = NoTemplate

\* the life of an appointment: created, updated, taken through its statuses
Next ==
    \/ \E user \in Users, req \in CreateRequests :
            Len(appointments) < MaxTracked /\ Create(user, req)
    \/ \E user \in Users, id \in DOMAIN appointments, req \in RestatusRequests :
            Update(user, id, req)
    \/ \E user \in Users, id \in DOMAIN appointments, req \in UpdateStatusRequests :
            UpdateStatus(user, id, req)
    \/ Tick

Spec == Init /\ [][Next]_vars

\* the schedule: Create and Update only
NextSchedule ==
    \/ \E user \in Users, req \in CreateRequests : Create(user, req)
    \/ \E user \in Users, id \in DOMAIN appointments, req \in ScheduleRequests :
            Update(user, id, req)

SpecSchedule == Init /\ [][NextSchedule]_vars

\* the intake of appointments: Create and Update against the references,
\* the business hours and the validation of the appointment
NextWindow ==
    \/ \E user \in Users, req \in WindowCreateRequests : Create(user, req)
    \/ \E user \in Users, id \in DOMAIN appointments, req \in WindowUpdateRequests :
            Update(user, id, req)

SpecWindow == Init /\ [][NextWindow]_vars

\* who may change an appointment: Create, Update and Delete by every user
NextAccess ==
    \/ \E user \in Users, req \in AccessCreateRequests : Create(user, req)
    \/ \E user \in Users, id \in DOMAIN appointments, req \in AccessUpdateRequests :
            Update(user, id, req)
    \/ \E user \in Users, id \in DOMAIN appointments : Delete(user, id)

SpecAccess == Init /\ [][NextAccess]_vars

----------------------------------------------------------------------------
(* concurrent Create requests: the conflict check and the insert of a      *)
(* request are two steps, and steps of other requests may come between     *)

Busy == { p \in Creators : inflight[p] # Idle }

\* HasConflict answered "no conflict": the request goes on to its transaction
CreateCheck(p, user, req) ==
    /\ inflight[p] = Idle
    /\ Len(appointments) + Cardinality(Busy) < MaxAppointments
    /\ inflight' =
         IF HandleCreate(appointments, user, req).err = ""
         THEN [inflight EXCEPT ![p] =
                 [ phase |-> "checked",
                   appointment |-> DefaultStatus(NewAppointment(req)),
                   seen |-> Len(appointments) ]]
         ELSE inflight
    /\ UNCHANGED <<appointments, now, stale, probe, recurring, notifications>>

\* db.Transaction(tx.Create)
CreateInsert(p) ==
    /\ inflight[p] # Idle
    /\ appointments' = Insert(appointments, inflight[p].appointment)
    /\ stale' = IF inflight[p].seen # Len(appointments)
                THEN stale \cup {Len(appointments) + 1}
                ELSE stale
    /\ inflight' = [inflight EXCEPT ![p] = Idle]
    /\ UNCHANGED <<now, probe, recurring, notifications>>

NextRace ==
    \/ \E p \in Creators, user \in Users, req \in CreateRequests :
            CreateCheck(p, user, req)
    \/ \E p \in Creators : CreateInsert(p)

SpecRace == Init /\ [][NextRace]_vars

----------------------------------------------------------------------------
(* the conflict detector on its own: one stored row, one candidate *)

ProbeRow(id, supplier, employee, status, start, end) ==
    [ ID |-> id,
      SupplierID |-> supplier,
      EmployeeID |-> employee,
      OperationID |-> 1,
      ProductID |-> 1,
      ScheduledStart |-> start,
      ScheduledEnd |-> end,
      Status |-> status,
      QuantityToDeliver |-> 1,
      ConfirmedAt |-> NilTime,
      CancelledAt |-> NilTime,
      CompletedAt |-> NilTime,
      CancellationReason |-> "",
      DeletedAt |-> NilTime ]

Intervals == { <<s, e>> \in Times \X Times : s < e }

StoredRows ==
    { ProbeRow(1, su, em, st, i[1], i[2]) :
        su \in IDsOf(Suppliers), em \in IDsOf(Employees), st \in Statuses,
        i \in Intervals }

\* a candidate is new (ID 0) or the stored row itself being updated (ID 1)
Candidates ==
    { ProbeRow(id, su, em, StatusPending, i[1], i[2]) :
        id \in {0, 1}, su \in IDsOf(Suppliers), em \in IDsOf(Employees),
        i \in Intervals }

InitDetector ==
    /\ appointments = <<>>
    /\ now = 1
    /\ inflight = [p \in Creators |-> Idle]
    /\ stale = {}
    /\ notifications = NoNotifications
    /\ probe \in [ phase : {"drawn"}, row : StoredRows, candidate : Candidates ]
    /\ recurring = NoTemplate

Detect ==
    /\ probe.phase = "drawn"
    /\ probe' =
         [ phase |-> "done",
           row |-> probe.row,
           candidate |-> probe.candidate,
           clause |-> ThreeClause(probe.row.ScheduledStart, probe.row.ScheduledEnd,
                                  probe.candidate.ScheduledStart,
                                  probe.candidate.ScheduledEnd),
           conflict |-> HasConflict(<<probe.row>>, probe.candidate) ]
    /\ UNCHANGED <<appointments, now, inflight, stale, recurring, notifications>>

NextDetector == Detect

SpecDetector == InitDetector /\ [][NextDetector]_vars

----------------------------------------------------------------------------
(* models.RecurringAppointment: the recurrence patterns and the calendar    *)
(*                                                                         *)
(* Times of a recurring appointment are counted in slots of 30 minutes     *)
(* since 2025-06-01T00:00Z, a Sunday.  A pointer field (EndDate,           *)
(* MaxOccurrences, MonthDay) is the empty set when nil and {v} when it     *)
(* points to v.                                                            *)

RecurrenceDaily == "daily"
RecurrenceWeekly == "weekly"
RecurrenceMonthly == "monthly"
RecurrenceBiweekly == "biweekly"

Sunday == 0
Monday == 1
Tuesday == 2
Wednesday == 3
Thursday == 4
Friday == 5
Saturday == 6

Nil == {}
Some(v) == {v}
Deref(p) == CHOOSE v \in p : TRUE

\* lengths of the months from June 2025 to May 2029; the four years repeat
\* until 2100, February 2028 has 29 days
MonthLengths ==
    << 30, 31, 31, 30, 31, 30, 31, 31, 28, 31, 30, 31,
       30, 31, 31, 30, 31, 30, 31, 31, 28, 31, 30, 31,
       30, 31, 31, 30, 31, 30, 31, 31, 29, 31, 30, 31,
       30, 31, 31, 30, 31, 30, 31, 31, 28, 31, 30, 31 >>

\* the calendar day a time falls on, and the time at a clock of a day
DateOf(t) == t \div SlotsPerDay
AtClock(day, clock) == day * SlotsPerDay + clock

\* time.Time.Weekday
Weekday(t) == (DateOf(t) + Sunday) % 7

RECURSIVE DayInMonth(_, _)
DayInMonth(day, month) ==
    IF day < MonthLengths[month] THEN day + 1
    ELSE DayInMonth(day - MonthLengths[month], (month % Len(MonthLengths)) + 1)

\* the days of the four years of MonthLengths
DaysInFourYears == 4 * 365 + 1

\* time.Time.Day
Day(t) == DayInMonth(DateOf(t) % DaysInFourYears, 1)

\* int(f) of a float64 quotient: the fraction is cut off toward zero
TruncDiv(a, b) == IF a >= 0 THEN a \div b ELSE -((-a) \div b)

\* a % b of Go: the sign of the result is the sign of a
GoMod(a, b) == a - b * TruncDiv(a, b)

\* time.Now().AddDate(10, 0, 0), for a time of the model: 2028 and 2032 are
\* leap years
TenYears == (10 * 365 + 2) * SlotsPerDay

\* "Default limit" of occurrences
DefaultMaxOccurrences == 1000

\* StartTimeMinutes / 60 and StartTimeMinutes % 60, as a clock in slots
ClockOfMinutes(minutes) == (minutes \div 60) * MinDuration + (minutes % 60) \div 30

\* mutant: only the first day of the list is compared
InWeekDaysFirstOnly(ra, currentDate) ==
    ra.WeekDays # <<>> /\ ra.WeekDays[1] = Weekday(currentDate)

InWeekDays(ra, currentDate) ==
    \E i \in DOMAIN ra.WeekDays : ra.WeekDays[i] = Weekday(currentDate)

\* "Calculate week number since start date"
WeeksSinceStart(ra, currentDate) ==
    TruncDiv(currentDate - ra.StartDate, 7 * SlotsPerDay)

\* mutant: biweekly includes every week
PatternIncludesEveryWeek(ra, currentDate) ==
    CASE ra.Pattern = RecurrenceDaily -> TRUE
      [] ra.Pattern = RecurrenceWeekly -> InWeekDays(ra, currentDate)
      [] ra.Pattern = RecurrenceBiweekly -> InWeekDays(ra, currentDate)
      [] ra.Pattern = RecurrenceMonthly ->
            ra.MonthDay # Nil /\ Day(currentDate) = Deref(ra.MonthDay)
      [] OTHER -> FALSE

\* mutant: a MonthDay past the end of the month falls on the first day of
\* the next one
PatternIncludesOverflow(ra, currentDate) ==
    CASE ra.Pattern = RecurrenceDaily -> TRUE
      [] ra.Pattern = RecurrenceWeekly -> InWeekDays(ra, currentDate)
      [] ra.Pattern = RecurrenceBiweekly ->
            /\ GoMod(WeeksSinceStart(ra, currentDate), 2) = 0
            /\ InWeekDays(ra, currentDate)
      [] ra.Pattern = RecurrenceMonthly ->
            /\ ra.MonthDay # Nil
            /\ \/ Day(currentDate) = Deref(ra.MonthDay)
               \/ /\ Day(currentDate) = 1
                  /\ currentDate >= SlotsPerDay
                  /\ Day(currentDate - SlotsPerDay) < Deref(ra.MonthDay)
      [] OTHER -> FALSE

\* "Check if this date should be included based on the pattern"
PatternIncludes(ra, currentDate) ==
    CASE ra.Pattern = RecurrenceDaily -> TRUE
      [] ra.Pattern = RecurrenceWeekly -> InWeekDays(ra, currentDate)
      [] ra.Pattern = RecurrenceBiweekly ->
            /\ GoMod(WeeksSinceStart(ra, currentDate), 2) = 0
            /\ InWeekDays(ra, currentDate)
      [] ra.Pattern = RecurrenceMonthly ->
            ra.MonthDay # Nil /\ Day(currentDate) = Deref(ra.MonthDay)
      [] OTHER -> FALSE

\* mutant: a date is excluded only at the time of day of the exclusion date
ExcludedSameInstant(ra, currentDate) ==
    \E i \in DOMAIN ra.ExclusionDates : ra.ExclusionDates[i] = currentDate

\* "Check if this date is in the exclusion list": same year, month and day
Excluded(ra, currentDate) ==
    \E i \in DOMAIN ra.ExclusionDates :
        DateOf(ra.ExclusionDates[i]) = DateOf(currentDate)

IncludeDate(ra, currentDate) ==
    PatternIncludes(ra, currentDate) /\ ~Excluded(ra, currentDate)

\* the loop over the days
RECURSIVE OccurrencesFrom(_, _, _, _, _)
OccurrencesFrom(ra, currentDate, endDate, maxOccurrences, occurrences) ==
    IF currentDate < endDate /\ Len(occurrences) < maxOccurrences
    THEN OccurrencesFrom(ra, currentDate + SlotsPerDay, endDate, maxOccurrences,
                         IF IncludeDate(ra, currentDate)
                         THEN Append(occurrences, currentDate)
                         ELSE occurrences)
    ELSE occurrences

\* mutant: a date that is the end date itself is still looked at
GenerateOccurrencesThroughEnd(ra, t) ==
    LET endDate == IF ra.EndDate # Nil THEN Deref(ra.EndDate) ELSE t + TenYears
        first == AtClock(DateOf(ra.StartDate), ClockOfMinutes(ra.StartTimeMinutes))
        maxOccurrences == IF ra.MaxOccurrences # Nil THEN Deref(ra.MaxOccurrences)
                          ELSE DefaultMaxOccurrences
    IN  OccurrencesFrom(ra, first, endDate + 1, maxOccurrences, <<>>)

\* mutant: an excluded date that the pattern includes uses up one of the
\* occurrences of the cap
GenerateOccurrencesExcludedCounted(ra, t) ==
    LET endDate == IF ra.EndDate # Nil THEN Deref(ra.EndDate) ELSE t + TenYears
        first == AtClock(DateOf(ra.StartDate), ClockOfMinutes(ra.StartTimeMinutes))
        maxOccurrences == IF ra.MaxOccurrences # Nil THEN Deref(ra.MaxOccurrences)
                          ELSE DefaultMaxOccurrences
        used == Cardinality({ i \in DOMAIN ra.ExclusionDates :
                    /\ ra.ExclusionDates[i] >= first
                    /\ PatternIncludes(ra, ra.ExclusionDates[i]) })
    IN  OccurrencesFrom(ra, first, endDate, maxOccurrences - used, <<>>)

\* GenerateOccurrences of the template ra, called at time t
GenerateOccurrences(ra, t) ==
    LET endDate == IF ra.EndDate # Nil THEN Deref(ra.EndDate) ELSE t + TenYears
        first == AtClock(DateOf(ra.StartDate), ClockOfMinutes(ra.StartTimeMinutes))
        maxOccurrences == IF ra.MaxOccurrences # Nil THEN Deref(ra.MaxOccurrences)
                          ELSE DefaultMaxOccurrences
    IN  OccurrencesFrom(ra, first, endDate, maxOccurrences, <<>>)

----------------------------------------------------------------------------
(* the recurrence expander on its own: one template, expanded once *)

Patterns == {RecurrenceDaily, RecurrenceWeekly, RecurrenceBiweekly, RecurrenceMonthly}

\* a Sunday at midnight, the same Sunday at noon, the Wednesday after it
StartDates == { AtClock(0, 0), AtClock(0, SlotsPerDay \div 2), AtClock(3, 0) }

EndDates == { Some(AtClock(MaxEndDay, 0)), Some(AtClock(MaxEndDay \div 4, 18)) }

\* 00:00 and 09:00
StartTimes == {0, 540}

WeekDaySets == { <<Monday, Wednesday>>, <<Sunday>>, <<>> }

MonthDays == { Nil, Some(1), Some(15), Some(31) }

\* no date, or the second Monday at some time of the day
ExclusionLists == { <<>>, <<AtClock(8, 30)>> }

\* templates whose expansion ends within the first months of the calendar: an
\* EndDate, or a count and a pattern of days of the week that meets it
Templates ==
    { ra \in [ Pattern : Patterns,
               StartDate : StartDates,
               EndDate : EndDates \cup {Nil},
               MaxOccurrences : {Nil, Some(MaxCount)},
               StartTimeMinutes : StartTimes,
               WeekDays : WeekDaySets,
               MonthDay : MonthDays,
               ExclusionDates : ExclusionLists ] :
        /\ ra.Pattern \notin {RecurrenceWeekly, RecurrenceBiweekly} => ra.WeekDays = <<>>
        /\ ra.Pattern # RecurrenceMonthly => ra.MonthDay = Nil
        /\ ra.EndDate = Nil =>
              /\ ra.MaxOccurrences # Nil
              /\ ra.Pattern # RecurrenceMonthly
              /\ ra.Pattern \in {RecurrenceWeekly, RecurrenceBiweekly} =>
                    ra.WeekDays # <<>> }

InitRecurring ==
    /\ appointments = <<>>
    /\ now = 1
    /\ inflight = [p \in Creators |-> Idle]
    /\ stale = {}
    /\ notifications = NoNotifications
    /\ probe = NoProbe
    /\ recurring \in [ phase : {"template"}, template : Templates ]

Generate ==
    /\ recurring.phase = "template"
    /\ recurring' =
         [ phase |-> "generated",
           template |-> recurring.template,
           occurrences |-> GenerateOccurrences(recurring.template, now) ]
    /\ UNCHANGED <<appointments, now, inflight, stale, probe, notifications>>

NextRecurring == Generate

SpecRecurring == InitRecurring /\ [][NextRecurring]_vars

----------------------------------------------------------------------------
(* GenerateOccurrences step by step: one iteration of the loop over the    *)
(* days is one step, so that an expansion of ten years is a run            *)

\* mutant: the count of the occurrences does not end the loop
LoopContinuesUncapped(currentDate, endDate, occurrenceCount, maxOccurrences) ==
    currentDate < endDate

\* currentDate.Before(endDate) && occurrenceCount < maxOccurrences
LoopContinues(currentDate, endDate, occurrenceCount, maxOccurrences) ==
    currentDate < endDate /\ occurrenceCount < maxOccurrences

\* mutant: the date does not advance
NextDateSame(currentDate) == currentDate

\* "Advance to the next day"
NextDate(currentDate) == currentDate + SlotsPerDay

\* templates, valid or not: the ones of Templates, a daily one that ends far
\* away, a pattern the code does not know, a count of zero, and templates
\* that state neither an end date nor a count
LoopTemplates ==
    Templates
    \cup
    { ra \in [ Pattern : Patterns \cup {"yearly"},
               StartDate : {AtClock(0, 0)},
               EndDate : {Nil, Some(AtClock(LongEndDay, 0))},
               MaxOccurrences : {Nil, Some(0)},
               StartTimeMinutes : {0},
               WeekDays : { <<Sunday>>, <<>> },
               MonthDay : {Nil, Some(31)},
               ExclusionDates : { <<>> } ] :
        /\ ra.Pattern \notin {RecurrenceWeekly, RecurrenceBiweekly} => ra.WeekDays = <<>>
        /\ ra.Pattern # RecurrenceMonthly => ra.MonthDay = Nil
        /\ ra.EndDate # Nil => ra.Pattern \in {RecurrenceDaily, RecurrenceMonthly} }

InitLoop ==
    /\ appointments = <<>>
    /\ now = 1
    /\ inflight = [p \in Creators |-> Idle]
    /\ stale = {}
    /\ notifications = NoNotifications
    /\ probe = NoProbe
    /\ recurring \in [ phase : {"template"}, template : LoopTemplates ]

\* the call, up to the loop
Enter ==
    /\ recurring.phase = "template"
    /\ LET ra == recurring.template IN
       recurring' =
         [ phase |-> "loop",
           template |-> ra,
           endDate |-> IF ra.EndDate # Nil THEN Deref(ra.EndDate) ELSE now + TenYears,
           currentDate |-> AtClock(DateOf(ra.StartDate),
                                   ClockOfMinutes(ra.StartTimeMinutes)),
           maxOccurrences |-> IF ra.MaxOccurrences # Nil
                                THEN Deref(ra.MaxOccurrences)
                                ELSE DefaultMaxOccurrences,
           occurrences |-> <<>> ]
    /\ UNCHANGED <<appointments, now, inflight, stale, probe, notifications>>

\* one day of the loop
Iterate ==
    /\ recurring.phase = "loop"
    /\ LoopContinues(recurring.currentDate, recurring.endDate,
                     Len(recurring.occurrences), recurring.maxOccurrences)
    /\ recurring' =
         [ recurring EXCEPT
             !.occurrences = IF IncludeDate(recurring.template, recurring.currentDate)
                               THEN Append(@, recurring.currentDate) ELSE @,
             !.currentDate = NextDate(@) ]
    /\ UNCHANGED <<appointments, now, inflight, stale, probe, notifications>>

\* the loop is left and the occurrences are returned
Return ==
    /\ recurring.phase = "loop"
    /\ ~LoopContinues(recurring.currentDate, recurring.endDate,
                      Len(recurring.occurrences), recurring.maxOccurrences)
    /\ recurring' = [ recurring EXCEPT !.phase = "returned" ]
    /\ UNCHANGED <<appointments, now, inflight, stale, probe, notifications>>

NextLoop ==
    \/ Enter
    \/ Iterate
    \/ Return

SpecLoop == InitLoop /\ [][NextLoop]_vars

\* templates, valid or not, that start late: the ones that state no end date
\* run to the end bound of ten years from now, the ones that state one have
\* it before the start date
LateTemplates ==
    { ra \in [ Pattern : Patterns \cup {"yearly"},
               StartDate : {AtClock(FarStartDay, 0)},
               EndDate : {Nil, Some(AtClock(MaxEndDay, 0))},
               MaxOccurrences : {Nil, Some(0), Some(MaxCount)},
               StartTimeMinutes : StartTimes,
               WeekDays : WeekDaySets,
               MonthDay : MonthDays,
               ExclusionDates : { <<>> } ] :
        /\ ra.Pattern \notin {RecurrenceWeekly, RecurrenceBiweekly} => ra.WeekDays = <<>>
        /\ ra.Pattern # RecurrenceMonthly => ra.MonthDay = Nil }

InitLoopFair ==
    /\ appointments = <<>>
    /\ now = 1
    /\ inflight = [p \in Creators |-> Idle]
    /\ stale = {}
    /\ notifications = NoNotifications
    /\ probe = NoProbe
    /\ recurring \in [ phase : {"template"}, template : Templates \cup LateTemplates ]

\* a call that has started runs on: nothing but the loop itself stops it
SpecLoopFair == InitLoopFair /\ [][NextLoop]_vars /\ WF_vars(NextLoop)

----------------------------------------------------------------------------
(* models.RecurringAppointment: Validate and GenerateAppointments, and the  *)
(* calls on one template: validated, expanded at two times, expanded with   *)
(* one more exclusion date, turned into appointments                        *)

\* time.Now().Truncate(24 * time.Hour)
TruncateToDay(t) == AtClock(DateOf(t), 0)

\* RecurringAppointment.Validate, called at time t
RecurringValidate(ra, t) ==
    IF ra.SupplierID = 0 THEN "supplier is required"
    ELSE IF ra.EmployeeID = 0 THEN "employee is required"
    ELSE IF ra.OperationID = 0 THEN "operation is required"
    ELSE IF ra.ProductID = 0 THEN "product is required"
    ELSE IF ra.QuantityToDeliver <= 0
        THEN "quantity to deliver must be greater than zero"
    ELSE IF ra.Pattern \notin {RecurrenceDaily, RecurrenceWeekly,
                               RecurrenceBiweekly, RecurrenceMonthly}
        THEN "invalid recurrence pattern"
    ELSE IF ra.StartDate < TruncateToDay(t) THEN "start date cannot be in the past"
    ELSE IF ra.EndDate # Nil /\ Deref(ra.EndDate) < ra.StartDate
        THEN "end date must be after start date"
    ELSE IF ra.EndDate = Nil /\ ra.MaxOccurrences = Nil
        THEN "either end date or maximum occurrences must be specified"
    ELSE IF ra.MaxOccurrences # Nil /\ Deref(ra.MaxOccurrences) <= 0
        THEN "maximum occurrences must be greater than zero"
    ELSE IF ra.DurationMinutes < 30
        THEN "appointment duration must be at least 30 minutes"
    ELSE IF ra.DurationMinutes > 480
        THEN "appointment duration cannot exceed 8 hours"
    ELSE IF ra.StartTimeMinutes < 0 \/ ra.StartTimeMinutes > 1439
        THEN "start time must be between 0 and 1439 minutes"
    ELSE IF ra.Pattern \in {RecurrenceWeekly, RecurrenceBiweekly} /\ ra.WeekDays = <<>>
        THEN "at least one weekday must be selected for weekly/biweekly patterns"
    ELSE IF ra.Pattern = RecurrenceMonthly /\ ra.MonthDay = Nil
        THEN "day of month must be specified for monthly pattern"
    ELSE IF ra.Pattern = RecurrenceMonthly
            /\ (Deref(ra.MonthDay) < 1 \/ Deref(ra.MonthDay) > 31)
        THEN "day of month must be between 1 and 31"
    ELSE ""

\* time.Duration(ra.DurationMinutes) * time.Minute, in slots
SlotsOfMinutes(minutes) == minutes \div 30

\* mutant: every appointment ends one hour after it starts
OccurrenceAppointmentOneHour(ra, occurrence) ==
    [ ID |-> 0,
      SupplierID |-> ra.SupplierID,
      EmployeeID |-> ra.EmployeeID,
      OperationID |-> ra.OperationID,
      ProductID |-> ra.ProductID,
      ScheduledStart |-> occurrence,
      ScheduledEnd |-> occurrence + MinDuration,
      Notes |-> ra.Notes,
      QuantityToDeliver |-> ra.QuantityToDeliver,
      Status |-> StatusPending,
      RecurringAppointmentID |-> Some(ra.ID),
      ConfirmedAt |-> NilTime,
      CancelledAt |-> NilTime,
      CompletedAt |-> NilTime,
      CancellationReason |-> "",
      DeletedAt |-> NilTime ]

\* the Appointment built for one occurrence
OccurrenceAppointment(ra, occurrence) ==
    [ ID |-> 0,
      SupplierID |-> ra.SupplierID,
      EmployeeID |-> ra.EmployeeID,
      OperationID |-> ra.OperationID,
      ProductID |-> ra.ProductID,
      ScheduledStart |-> occurrence,
      ScheduledEnd |-> occurrence + SlotsOfMinutes(ra.DurationMinutes),
      Notes |-> ra.Notes,
      QuantityToDeliver |-> ra.QuantityToDeliver,
      Status |-> StatusPending,
      RecurringAppointmentID |-> Some(ra.ID),
      ConfirmedAt |-> NilTime,
      CancelledAt |-> NilTime,
      CompletedAt |-> NilTime,
      CancellationReason |-> "",
      DeletedAt |-> NilTime ]

\* GenerateAppointments of the template ra, called at time t
GenerateAppointments(ra, t) ==
    LET occurrences == GenerateOccurrences(ra, t)
    IN  [ i \in DOMAIN occurrences |-> OccurrenceAppointment(ra, occurrences[i]) ]

\* the fields of a template that say what is delivered, by whom and for how
\* long
Bookings ==
    { [ ID |-> 7, SupplierID |-> 1, EmployeeID |-> 1, OperationID |-> 1,
        ProductID |-> 1, QuantityToDeliver |-> 5, Notes |-> "dock 2",
        DurationMinutes |-> 60 ],
      [ ID |-> 8, SupplierID |-> 2, EmployeeID |-> 1, OperationID |-> 1,
        ProductID |-> 1, QuantityToDeliver |-> 1, Notes |-> "",
        DurationMinutes |-> 90 ],
      [ ID |-> 9, SupplierID |-> 1, EmployeeID |-> 2, OperationID |-> 1,
        ProductID |-> 1, QuantityToDeliver |-> 2, Notes |-> "",
        DurationMinutes |-> 30 ] }

BookedTemplates == { ra @@ b : ra \in Templates \cup LateTemplates, b \in Bookings }

\* the second call comes a week after the first
CallGap == 7 * SlotsPerDay

\* the table holds the appointment of supplier 2 and employee 1 on
\* 2025-06-01 from 01:00 to 02:00
InitTemplate ==
    /\ appointments = << ProbeRow(1, 2, 1, StatusPending, 2, 4) >>
    /\ now = 1
    /\ inflight = [p \in Creators |-> Idle]
    /\ stale = {}
    /\ notifications = NoNotifications
    /\ probe = NoProbe
    /\ recurring \in [ phase : {"template"}, template : BookedTemplates ]

\* Validate, as BeforeSave calls it
ValidateTemplate ==
    /\ recurring.phase = "template"
    /\ recurring' = [ phase |-> "validated",
                      template |-> recurring.template,
                      err |-> RecurringValidate(recurring.template, now) ]
    /\ UNCHANGED <<appointments, now, inflight, stale, probe, notifications>>

\* a first call of GenerateOccurrences
FirstCall ==
    /\ recurring.phase = "template"
    /\ recurring' = [ phase |-> "called",
                      template |-> recurring.template,
                      at |-> now,
                      occurrences |-> GenerateOccurrences(recurring.template, now) ]
    /\ UNCHANGED <<appointments, now, inflight, stale, probe, notifications>>

\* time passes between two calls
Later ==
    /\ recurring.phase = "called"
    /\ now < CallGap
    /\ now' = now + CallGap
    /\ UNCHANGED <<appointments, inflight, stale, probe, recurring, notifications>>

\* a second call of GenerateOccurrences on the same template
SecondCall ==
    /\ recurring.phase = "called"
    /\ recurring' = [ phase |-> "recalled",
                      template |-> recurring.template,
                      at |-> recurring.at,
                      occurrences |-> recurring.occurrences,
                      againAt |-> now,
                      again |-> GenerateOccurrences(recurring.template, now) ]
    /\ UNCHANGED <<appointments, now, inflight, stale, probe, notifications>>

\* the times of day of an exclusion date: midnight and 15:00
ExclusionClocks == {0, 30}

\* the date of one occurrence is added to the exclusion dates, at some time
\* of the day, and GenerateOccurrences is called again at the same time
Exclude ==
    /\ recurring.phase = "called"
    /\ now = recurring.at
    /\ \E i \in DOMAIN recurring.occurrences, clock \in ExclusionClocks :
         LET date == AtClock(DateOf(recurring.occurrences[i]), clock)
             ra == [ recurring.template EXCEPT !.ExclusionDates = Append(@, date) ]
         IN  recurring' = [ phase |-> "excluded",
                            template |-> ra,
                            at |-> recurring.at,
                            occurrences |-> recurring.occurrences,
                            removed |-> recurring.occurrences[i],
                            again |-> GenerateOccurrences(ra, now) ]
    /\ UNCHANGED <<appointments, now, inflight, stale, probe, notifications>>

\* a call of GenerateAppointments
Materialise ==
    /\ recurring.phase = "template"
    /\ recurring' = [ phase |-> "materialised",
                      template |-> recurring.template,
                      at |-> now,
                      generated |-> GenerateAppointments(recurring.template, now) ]
    /\ UNCHANGED <<appointments, now, inflight, stale, probe, notifications>>

NextTemplate ==
    \/ ValidateTemplate
    \/ FirstCall
    \/ Later
    \/ SecondCall
    \/ Exclude
    \/ Materialise

SpecTemplate == InitTemplate /\ [][NextTemplate]_vars

----------------------------------------------------------------------------
(* Properties: the conflict detector and the schedule *)

\* the canonical test of two half-open intervals
Overlap(s1, e1, s2, e2) == s1 < e2 /\ s2 < e1

Active(a) == a.Status # StatusCancelled

SharesResource(a, b) ==
    a.EmployeeID = b.EmployeeID \/ a.SupplierID = b.SupplierID

Clash(a, b) ==
    /\ Active(a) /\ Active(b) /\ SharesResource(a, b)
    /\ Overlap(a.ScheduledStart, a.ScheduledEnd, b.ScheduledStart, b.ScheduledEnd)

\* C1: after any sequence of successful Create and Update requests served one
\* at a time, no two stored non-cancelled appointments of the same employee or
\* the same supplier overlap.
NoOverlap ==
    \A i, j \in DOMAIN appointments :
        i < j => ~Clash(appointments[i], appointments[j])

\* C2: two stored appointments clash only if the later row was inserted by a
\* Create whose conflict check ran before another insert: when check and
\* insert of every Create are one atomic step (no row is stale), the
\* no-overlap invariant holds, and otherwise it can be broken.
OverlapOnlyByStaleCheck ==
    \A i, j \in DOMAIN appointments :
        (i < j /\ Clash(appointments[i], appointments[j])) => j \in stale

\* two concurrent Creates for the same employee both committed overlapping rows
RaceCommitted ==
    \E i, j \in DOMAIN appointments :
        /\ i < j
        /\ appointments[i].EmployeeID = appointments[j].EmployeeID
        /\ Clash(appointments[i], appointments[j])
        /\ j \in stale

\* what a Create request must pass besides the conflict check
PassesValidations(req) ==
    /\ CreateBindOK(req)
    /\ ServiceCreateCheck(NewAppointment(req)) = ""
    /\ Validate(NewAppointment(req)) = ""

ClashesWithStored(db, a) ==
    \E r \in Rows(db) : Clash(r, [a EXCEPT !.Status = StatusPending])

\* C3: a Create that overlaps a stored non-cancelled appointment of the same
\* employee or of the same supplier fails (with the conflict error when its
\* other validations pass) and stores nothing; a Create that overlaps none
\* and passes the other validations succeeds and stores the appointment.
CreateRejectsExactlyClashes ==
    \A user \in Users, req \in CreateRequests :
        LET a == NewAppointment(req)
            r == HandleCreate(appointments, user, req)
        IN  /\ ClashesWithStored(appointments, a) =>
                 /\ r.err # ""
                 /\ r.db = appointments
            /\ (ClashesWithStored(appointments, a) /\ PassesValidations(req)) =>
                 r.err = "appointment conflicts with an existing appointment"
            /\ (~ClashesWithStored(appointments, a) /\ PassesValidations(req)) =>
                 /\ r.err = ""
                 /\ r.db = Append(appointments,
                                  [a EXCEPT !.ID = Len(appointments) + 1])

\* a second appointment was accepted right after the first one of the same
\* employee, and a request that clashes through the supplier alone is refused
CreateNextToStored ==
    /\ Len(appointments) = 2
    /\ appointments[1].EmployeeID = appointments[2].EmployeeID
    /\ Active(appointments[1]) /\ Active(appointments[2])
    /\ appointments[1].ScheduledEnd = appointments[2].ScheduledStart
    /\ \E user \in Users, req \in CreateRequests :
         /\ PassesValidations(req)
         /\ \A r \in Rows(appointments) :
               Clash(r, NewAppointment(req)) => r.EmployeeID # req.EmployeeID
         /\ HandleCreate(appointments, user, req).err =
               "appointment conflicts with an existing appointment"

\* C4: for a stored interval [s, e) and a candidate [S, E) with s < e and
\* S < E the three-clause predicate of HasConflict equals the half-open
\* overlap test s < E /\ S < e; intervals that only touch do not conflict.
ThreeClauseIsOverlap ==
    probe.phase = "done" =>
        (probe.clause <=>
            Overlap(probe.row.ScheduledStart, probe.row.ScheduledEnd,
                    probe.candidate.ScheduledStart, probe.candidate.ScheduledEnd))

TouchingDoNotConflict ==
    /\ probe.phase = "done"
    /\ probe.row.ScheduledEnd = probe.candidate.ScheduledStart
    /\ ~probe.clause

\* C5: HasConflict ignores a stored appointment that is cancelled, and counts
\* an overlapping appointment of the same employee or supplier in every other
\* status.
OnlyCancelledIgnored ==
    probe.phase = "done" =>
        /\ probe.row.Status = StatusCancelled => ~probe.conflict
        /\ ( /\ probe.row.Status # StatusCancelled
             /\ probe.row.ID # probe.candidate.ID
             /\ SharesResource(probe.row, probe.candidate)
             /\ Overlap(probe.row.ScheduledStart, probe.row.ScheduledEnd,
                        probe.candidate.ScheduledStart,
                        probe.candidate.ScheduledEnd) )
           => probe.conflict

CancelledOverlapIgnored ==
    /\ probe.phase = "done"
    /\ probe.row.Status = StatusCancelled
    /\ probe.row.ID # probe.candidate.ID
    /\ probe.row.EmployeeID = probe.candidate.EmployeeID
    /\ Overlap(probe.row.ScheduledStart, probe.row.ScheduledEnd,
               probe.candidate.ScheduledStart, probe.candidate.ScheduledEnd)
    /\ ~probe.conflict

----------------------------------------------------------------------------
(* Properties: the status transition authority *)

Forbidden == "You don't have permission to change the status"

\* the permission matrix: role, stored status, requested status
TransitionTable ==
    { <<"employee", StatusPending, StatusConfirmed>>,
      <<"supplier", StatusPending, StatusCancelled>>,
      <<"employee", StatusConfirmed, StatusCompleted>>,
      <<"supplier", StatusConfirmed, StatusCancelled>>,
      <<"supplier", StatusConfirmed, StatusRescheduled>>,
      <<"supplier", StatusRescheduled, StatusPending>> }

Terminal(a) == a.Status \in {StatusCancelled, StatusCompleted}

\* the user is the account of the appointment's supplier / employee
IsSupplierOf(user, a) == RowOf(Suppliers, a.SupplierID).UserID = user.ID
IsEmployeeOf(user, a) == RowOf(Employees, a.EmployeeID).UserID = user.ID

Entitled(user, a, to) ==
    \/ user.Role = "admin"
    \/ user.Role = "employee" /\ a.Status = StatusPending /\ to = StatusConfirmed
    \/ /\ user.Role = "supplier"
       /\ <<"supplier", a.Status, to>> \in TransitionTable
       /\ IsSupplierOf(user, a)
    \/ /\ user.Role = "employee"
       /\ a.Status = StatusConfirmed /\ to = StatusCompleted
       /\ IsEmployeeOf(user, a)

\* C8: every row of the table is permitted to the actor it names (any
\* employee for pending -> confirmed, the appointment's supplier, the
\* appointment's employee, an admin for anything), and after the request the
\* stored status is the requested one.
EveryTableRowPermitted ==
    \A user \in Users, id \in DOMAIN appointments, req \in UpdateStatusRequests :
        Entitled(user, appointments[id], req.Status) =>
            /\ HandleUpdateStatus(appointments, user, id, req, now).err = ""
            /\ HandleUpdateStatus(appointments, user, id, req, now).db[id].Status
                 = req.Status

\* C9: a supplier-role user is permitted a supplier-gated transition iff the
\* user is the account of the appointment's supplier, and an employee-role
\* user is permitted confirmed -> completed iff the user is the account of
\* the appointment's employee.
PermissionIffAccountOfParty ==
    \A user \in Users, id \in DOMAIN appointments, to \in Statuses :
        LET a == appointments[id] IN
        /\ (user.Role = "supplier" /\ <<"supplier", a.Status, to>> \in TransitionTable)
             => (hasStatusChangePermission(user, a, to) <=> IsSupplierOf(user, a))
        /\ (user.Role = "employee" /\ a.Status = StatusConfirmed
                /\ to = StatusCompleted)
             => (hasStatusChangePermission(user, a, to) <=> IsEmployeeOf(user, a))

\* C10: a successful status change into confirmed, cancelled or completed
\* sets ConfirmedAt, CancelledAt or CompletedAt to the time of the change; a
\* change into pending or rescheduled leaves the three as they were.
StatusChangeStamps ==
    \A user \in Users, id \in DOMAIN appointments, req \in UpdateStatusRequests :
        LET r == HandleUpdateStatus(appointments, user, id, req, now)
            old == appointments[id]
            new == r.db[id]
        IN  r.err = "" =>
              /\ new.Status = req.Status
              /\ req.Status = StatusConfirmed => new.ConfirmedAt = now
              /\ req.Status = StatusCancelled => new.CancelledAt = now
              /\ req.Status = StatusCompleted => new.CompletedAt = now
              /\ req.Status \in {StatusPending, StatusRescheduled} =>
                    /\ new.ConfirmedAt = old.ConfirmedAt
                    /\ new.CancelledAt = old.CancelledAt
                    /\ new.CompletedAt = old.CompletedAt

\* confirmed at one time, completed at a later one: each stamp is the time
\* of its own change
StampedAtTwoTimes ==
    \E id \in DOMAIN appointments :
        /\ appointments[id].Status = StatusCompleted
        /\ appointments[id].ConfirmedAt # NilTime
        /\ appointments[id].CompletedAt = now
        /\ appointments[id].ConfirmedAt < now
        /\ appointments[id].CancelledAt = NilTime

----------------------------------------------------------------------------
(* Properties: the reason of a cancellation *)

----------------------------------------------------------------------------
(* Properties: the business hours *)

OutOfHoursError == "appointment must be within operation hours"

\* hour and minute of a time, its date dropped
ClockOf(t) == t - SlotsPerDay * (t \div SlotsPerDay)

WithinHours(req) ==
    LET operation == RowOf(Operations, req.OperationID) IN
    /\ ClockOf(req.ScheduledStart) >= ClockOf(operation.OpeningHour)
    /\ ClockOf(req.ScheduledEnd) <= ClockOf(operation.ClosingHour)

\* C12: a Create whose references resolve fails with the out-of-hours error
\* and stores nothing unless the time of day of its start is not before the
\* opening time and the time of day of its end is not after the closing time
\* (the date is ignored, both bounds are inclusive); within the hours the
\* out-of-hours error is not raised.
CreateRefusesOutOfHours ==
    \A req \in WindowCreateRequests :
        (CreateBindOK(req) /\ ReferenceError(NewAppointment(req)) = "") =>
            \A user \in Users :
                LET r == HandleCreate(appointments, user, req) IN
                IF WithinHours(req)
                THEN r.err # OutOfHoursError
                ELSE r.err = OutOfHoursError /\ r.db = appointments

\* an appointment from the opening time to the closing time of a later day
\* was accepted
OpeningToClosingStored ==
    \E id \in DOMAIN appointments :
        LET a == appointments[id]
            operation == RowOf(Operations, a.OperationID)
        IN  /\ a.ScheduledStart >= SlotsPerDay
            /\ ClockOf(a.ScheduledStart) = operation.OpeningHour
            /\ ClockOf(a.ScheduledEnd) = operation.ClosingHour
            /\ a.ScheduledEnd - a.ScheduledStart
                 = operation.ClosingHour - operation.OpeningHour

\* C13: every stored appointment fits inside the business hours of its
\* operation: every instant of [start, end) has a time of day within
\* [opening, closing], whatever the length of the appointment and also when
\* start and end fall on different calendar days.
StoredFitWindow ==
    \A id \in DOMAIN appointments :
        LET a == appointments[id]
            operation == RowOf(Operations, a.OperationID)
        IN  \A t \in a.ScheduledStart..(a.ScheduledEnd - 1) :
                /\ ClockOf(t) >= ClockOf(operation.OpeningHour)
                /\ ClockOf(t) <= ClockOf(operation.ClosingHour)

----------------------------------------------------------------------------
(* Properties: the validation of the appointment *)

WellFormed(a) ==
    /\ a.ScheduledStart < a.ScheduledEnd
    /\ a.ScheduledEnd - a.ScheduledStart >= MinDuration
    /\ a.QuantityToDeliver > 0

\* quantities a caller of the service may hand over
Quantities == {-1, 0, 1}

\* C14: after any sequence of Create and Update requests every stored
\* appointment has start < end, end - start >= 1 hour and quantity > 0; a
\* Create or an Update whose appointment breaks one of the three fails and
\* leaves the table unchanged, at the handler and at the service alike.
AppointmentsStayWellFormed ==
    /\ \A id \in DOMAIN appointments : WellFormed(appointments[id])
    /\ \A req \in WindowCreateRequests :
         ~WellFormed(NewAppointment(req)) =>
            \A user \in Users :
                LET r == HandleCreate(appointments, user, req) IN
                r.err # "" /\ r.db = appointments
    /\ \A id \in DOMAIN appointments, req \in WindowUpdateRequests :
         ~WellFormed(Merge(appointments[id], req)) =>
            \A user \in Users :
                LET r == HandleUpdate(appointments, user, id, req) IN
                r.err # "" /\ r.db = appointments
    /\ \A req \in WindowCreateRequests, q \in Quantities :
         LET a == [NewAppointment(req) EXCEPT !.QuantityToDeliver = q]
             r == ServiceCreate(appointments, a)
         IN  ~WellFormed(a) => (r.err # "" /\ r.db = appointments)
    /\ \A id \in DOMAIN appointments, q \in Quantities :
         LET a == [appointments[id] EXCEPT !.QuantityToDeliver = q]
             r == ServiceUpdate(appointments, a)
         IN  ~WellFormed(a) => (r.err # "" /\ r.db = appointments)

\* an appointment of exactly one hour is stored, and the Update that would
\* shorten it is refused by the validation
ShorteningRefused ==
    \E id \in DOMAIN appointments, user \in Users, req \in WindowUpdateRequests :
        /\ appointments[id].ScheduledEnd - appointments[id].ScheduledStart
             = MinDuration
        /\ req.ScheduledStart = ZeroTime
        /\ req.ScheduledEnd = appointments[id].ScheduledStart + 1
        /\ HandleUpdate(appointments, user, id, req).err
             = "appointment must be at least 1 hour long"
        /\ HandleUpdate(appointments, user, id, req).db = appointments

----------------------------------------------------------------------------
(* Properties: the references of a Create *)

\* the entities a Create names, in the order they are resolved
Entities == <<"supplier", "employee", "operation", "product">>

Resolves(req, entity) ==
    CASE entity = "supplier" -> req.SupplierID \in IDsOf(Suppliers)
      [] entity = "employee" -> req.EmployeeID \in IDsOf(Employees)
      [] entity = "operation" -> req.OperationID \in IDsOf(Operations)
      [] entity = "product" -> req.ProductID \in IDsOf(Products)

InvalidReference ==
    [ supplier |-> "invalid supplier", employee |-> "invalid employee",
      operation |-> "invalid operation", product |-> "invalid product" ]

\* C15: a Create with an id that does not resolve fails with the
\* invalid-reference error of the first missing entity in the order supplier,
\* employee, operation, product, whatever its times are (no hours check, no
\* conflict check), and stores nothing.
CreateNamesFirstMissing ==
    \A req \in WindowCreateRequests :
        \A i \in DOMAIN Entities :
            ( /\ CreateBindOK(req)
              /\ ~Resolves(req, Entities[i])
              /\ \A j \in 1..(i - 1) : Resolves(req, Entities[j]) )
            => \A user \in Users :
                   LET r == HandleCreate(appointments, user, req) IN
                   r.err = InvalidReference[Entities[i]] /\ r.db = appointments

\* a request with a missing product that is also out of hours and overlaps a
\* stored appointment of its employee is answered with the missing product
MissingProductBeforeOtherChecks ==
    \E id \in DOMAIN appointments, user \in Users, req \in WindowCreateRequests :
        /\ CreateBindOK(req)
        /\ \A i \in 1..3 : Resolves(req, Entities[i])
        /\ ~Resolves(req, "product")
        /\ ~WithinHours(req)
        /\ req.EmployeeID = appointments[id].EmployeeID
        /\ req.ScheduledStart < appointments[id].ScheduledEnd
        /\ appointments[id].ScheduledStart < req.ScheduledEnd
        /\ HandleCreate(appointments, user, req).err = "invalid product"

----------------------------------------------------------------------------
(* Properties: the initial state *)

\* C16: after every successful Create the stored appointment is pending and
\* ConfirmedAt, CancelledAt and CompletedAt are unset; an appointment handed to
\* the service with its status unset is stored as pending.
CreatedPending ==
    /\ \A user \in Users, req \in WindowCreateRequests :
         LET r == HandleCreate(appointments, user, req) IN
         r.err = "" =>
            /\ Len(r.db) = Len(appointments) + 1
            /\ r.db[Len(r.db)].Status = StatusPending
            /\ r.db[Len(r.db)].ConfirmedAt = NilTime
            /\ r.db[Len(r.db)].CancelledAt = NilTime
            /\ r.db[Len(r.db)].CompletedAt = NilTime
    /\ \A req \in WindowCreateRequests :
         LET r == ServiceCreate(appointments,
                                [NewAppointment(req) EXCEPT !.Status = ""])
         IN  r.err = "" =>
                /\ Len(r.db) = Len(appointments) + 1
                /\ r.db[Len(r.db)].Status = StatusPending

\* two appointments were created one after the other and both are pending
\* with no timestamp
TwoCreatedPending ==
    /\ Len(appointments) = 2
    /\ \A id \in DOMAIN appointments :
         /\ appointments[id].Status = StatusPending
         /\ appointments[id].ConfirmedAt = NilTime
         /\ appointments[id].CancelledAt = NilTime
         /\ appointments[id].CompletedAt = NilTime

----------------------------------------------------------------------------
(* Properties: Update of a closed appointment *)

ImmutableStateError == "cannot update cancelled or completed appointments"

\* the appointments an Update may hand to the service for a stored one: the
\* fields of any request merged in, ids that do not resolve included
UpdatedFrom(existing) ==
    { [Merge(existing, req) EXCEPT !.SupplierID = su] :
        req \in UpdateRequests, su \in {existing.SupplierID} \cup MissingIDs }

\* C17: Update of an appointment stored as cancelled or completed fails with
\* the immutable-state error, whatever fields the request carries, and leaves
\* every field of the stored appointment unchanged.
UpdateOfClosedRefused ==
    \A id \in DOMAIN appointments :
        Terminal(appointments[id]) =>
            /\ \A a \in UpdatedFrom(appointments[id]) :
                 /\ ServiceUpdate(appointments, a).err = ImmutableStateError
                 /\ ServiceUpdate(appointments, a).db = appointments
            /\ \A user \in Users, req \in UpdateRequests :
                 LET r == HandleUpdate(appointments, user, id, req) IN
                 /\ r.err # ""
                 /\ r.db = appointments
                 /\ user.Role \in {"admin", "supplier"} =>
                        r.err = ImmutableStateError

\* an appointment cancelled through UpdateStatus is asked to move to another
\* employee and another time, and the Update is refused
UpdateAfterCancelRefused ==
    \E id \in DOMAIN appointments, user \in Users, req \in MoveRequests :
        /\ appointments[id].Status = StatusCancelled
        /\ appointments[id].CancelledAt # NilTime
        /\ req.EmployeeID \notin {0, appointments[id].EmployeeID}
        /\ req.ScheduledEnd \notin {ZeroTime, appointments[id].ScheduledEnd}
        /\ HandleUpdate(appointments, user, id, req).err = ImmutableStateError
        /\ HandleUpdate(appointments, user, id, req).db = appointments

----------------------------------------------------------------------------
(* Properties: the recurrence expander *)

\* the days the properties range over
CalendarDays == 0..(MaxEndDay + 1)

\* the time of the occurrence of a day
OccurrenceAt(ra, day) == AtClock(day, ClockOfMinutes(ra.StartTimeMinutes))

\* the end bound of the generation
EndBound(ra, t) == IF ra.EndDate = Nil THEN t + TenYears ELSE Deref(ra.EndDate)

OccurrenceCap(ra) ==
    IF ra.MaxOccurrences = Nil THEN DefaultMaxOccurrences ELSE Deref(ra.MaxOccurrences)

\* the day is in the generation range: not before StartDate's day, before the
\* end bound, and the cap is not reached by the occurrences before it
InGenerationRange(ra, occurrences, day) ==
    /\ day >= DateOf(ra.StartDate)
    /\ OccurrenceAt(ra, day) < EndBound(ra, now)
    /\ Cardinality({ i \in DOMAIN occurrences :
                        occurrences[i] < OccurrenceAt(ra, day) }) < OccurrenceCap(ra)

ExcludedDay(ra, day) ==
    \E i \in DOMAIN ra.ExclusionDates : DateOf(ra.ExclusionDates[i]) = day

\* the occurrences are, in ascending order, the days of the generation range
\* that are wanted and not excluded
ExpandsTo(ra, occurrences, Wanted(_)) ==
    /\ \A i, j \in DOMAIN occurrences : i < j => occurrences[i] < occurrences[j]
    /\ \A i \in DOMAIN occurrences :
         \E day \in CalendarDays : occurrences[i] = OccurrenceAt(ra, day)
    /\ \A day \in CalendarDays :
         InGenerationRange(ra, occurrences, day) =>
            ( (\E i \in DOMAIN occurrences : occurrences[i] = OccurrenceAt(ra, day))
              <=> (Wanted(day) /\ ~ExcludedDay(ra, day)) )

\* weekly on Monday and Wednesday from Sunday 2025-06-01, no end date, four
\* occurrences, nothing excluded
IsWeeklyExample(ra) ==
    /\ ra.Pattern = RecurrenceWeekly
    /\ ra.WeekDays = <<Monday, Wednesday>>
    /\ ra.StartDate = AtClock(0, 0)
    /\ ra.EndDate = Nil
    /\ ra.MaxOccurrences = Some(4)
    /\ ra.ExclusionDates = <<>>

\* 2025-06-02, 2025-06-04, 2025-06-09 and 2025-06-11
WeeklyExampleDays == <<1, 3, 8, 10>>

\* C18: for pattern weekly a day of the generation range is an occurrence iff
\* its day of the week is in the weekday set and it is not excluded; weekdays
\* {Monday, Wednesday}, start 2025-06-01, no end date and MaxOccurrences = 4
\* give exactly 2025-06-02, 2025-06-04, 2025-06-09, 2025-06-11.
WeeklyOnWeekDays ==
    (recurring.phase = "generated" /\ recurring.template.Pattern = RecurrenceWeekly)
    => LET ra == recurring.template
           occurrences == recurring.occurrences
           OnWeekDay(day) == \E i \in DOMAIN ra.WeekDays : ra.WeekDays[i] = day % 7
       IN  /\ ExpandsTo(ra, occurrences, OnWeekDay)
           /\ IsWeeklyExample(ra) =>
                occurrences = [ i \in 1..4 |-> OccurrenceAt(ra, WeeklyExampleDays[i]) ]

\* the example was expanded, at 09:00
WeeklyExampleExpanded ==
    /\ recurring.phase = "generated"
    /\ IsWeeklyExample(recurring.template)
    /\ recurring.template.StartTimeMinutes = 540
    /\ recurring.occurrences =
         << AtClock(1, 18), AtClock(3, 18), AtClock(8, 18), AtClock(10, 18) >>

\* whole weeks between StartDate and a time; none before StartDate
WholeWeeksSince(ra, t) ==
    IF t < ra.StartDate THEN 0 ELSE (t - ra.StartDate) \div (7 * SlotsPerDay)

RECURSIVE MonthStart(_)
MonthStart(month) ==
    IF month = 1 THEN 0
    ELSE MonthStart(month - 1) + MonthLengths[month - 1]

\* a month whose days are all in the generation range
MonthInRange(ra, month) ==
    /\ MonthStart(month) >= DateOf(ra.StartDate)
    /\ OccurrenceAt(ra, MonthStart(month) + MonthLengths[month] - 1)
          < EndBound(ra, now)

OccurrencesInMonth(ra, occurrences, month) ==
    { i \in DOMAIN occurrences :
        /\ DateOf(occurrences[i]) >= MonthStart(month)
        /\ DateOf(occurrences[i]) < MonthStart(month) + MonthLengths[month] }

\* C20: for pattern monthly a day of the generation range is an occurrence iff
\* its day of the month equals MonthDay and it is not excluded; so, with no
\* cap and nothing excluded, a month of the range without such a day has no
\* occurrence and every other month of the range has exactly one.
MonthlyOnMonthDay ==
    (recurring.phase = "generated" /\ recurring.template.Pattern = RecurrenceMonthly)
    => LET ra == recurring.template
           occurrences == recurring.occurrences
           OnMonthDay(day) ==
               ra.MonthDay # Nil /\ Day(AtClock(day, 0)) = Deref(ra.MonthDay)
       IN  /\ ExpandsTo(ra, occurrences, OnMonthDay)
           /\ (ra.MonthDay # Nil /\ ra.MaxOccurrences = Nil
                 /\ ra.ExclusionDates = <<>>) =>
                 \A month \in 1..3 :
                     MonthInRange(ra, month) =>
                        Cardinality(OccurrencesInMonth(ra, occurrences, month))
                          = IF Deref(ra.MonthDay) <= MonthLengths[month] THEN 1 ELSE 0

\* MonthDay 31 from 2025-06-01 to 2025-09-01: nothing in June, then 07-31 and
\* 08-31
ThirtyFirstSkipsJune ==
    /\ recurring.phase = "generated"
    /\ recurring.template.Pattern = RecurrenceMonthly
    /\ recurring.template.MonthDay = Some(31)
    /\ recurring.template.StartDate = AtClock(0, 0)
    /\ recurring.template.StartTimeMinutes = 0
    /\ recurring.occurrences = << AtClock(60, 0), AtClock(91, 0) >>

----------------------------------------------------------------------------
(* Properties: the cap of the occurrences *)

\* C21: GenerateOccurrences never holds more than MaxOccurrences occurrences
\* when MaxOccurrences is set and never more than 1000 when it is not, and
\* once that many are emitted no further day is looked at: the loop stands on
\* the day after the last occurrence.
CapStopsGeneration ==
    recurring.phase \in {"loop", "returned"}
    => LET ra == recurring.template
           occurrences == recurring.occurrences
       IN  /\ Len(occurrences) <= OccurrenceCap(ra)
           /\ (Len(occurrences) = OccurrenceCap(ra) /\ occurrences # <<>>) =>
                 recurring.currentDate = occurrences[Len(occurrences)] + SlotsPerDay

\* a daily template that ends after LongEndDay days and states no count
\* returned the first 1000 days
ThousandReturned ==
    /\ recurring.phase = "returned"
    /\ recurring.template.MaxOccurrences = Nil
    /\ recurring.template.EndDate = Some(AtClock(LongEndDay, 0))
    /\ Len(recurring.occurrences) = 1000
    /\ recurring.currentDate < recurring.endDate

----------------------------------------------------------------------------
(* Properties: termination of the expansion *)

\* C27: GenerateOccurrences terminates for every template, valid or not: the
\* loop over the days reaches its end bound or its cap and the call returns.
ExpansionTerminates == <>(recurring.phase = "returned")

\* a template with no end date, no count and no day of the week came to the
\* end bound of ten years with nothing to return
TenYearsWalked ==
    /\ recurring.phase = "returned"
    /\ recurring.template.EndDate = Nil
    /\ recurring.template.MaxOccurrences = Nil
    /\ recurring.template.Pattern = RecurrenceWeekly
    /\ recurring.template.WeekDays = <<>>
    /\ recurring.template.StartDate = AtClock(FarStartDay, 0)
    /\ recurring.template.StartTimeMinutes = 0
    /\ recurring.occurrences = <<>>
    /\ recurring.currentDate = AtClock(DateOf(TenYears) + 1, 0)

----------------------------------------------------------------------------
(* Properties: the calls on one template *)

\* every occurrence lies on or after the day of StartDate and before the end
\* bound of a call at time t
WithinBounds(ra, occurrences, t) ==
    \A i \in DOMAIN occurrences :
        /\ DateOf(occurrences[i]) >= DateOf(ra.StartDate)
        /\ occurrences[i] < EndBound(ra, t)

\* C22: every occurrence returned by GenerateOccurrences lies on or after the
\* calendar day of StartDate and strictly before the end bound, EndDate when
\* set and ten years after the time of the call otherwise.
OccurrencesWithinBounds ==
    /\ recurring.phase \in {"called", "recalled", "excluded"} =>
          WithinBounds(recurring.template, recurring.occurrences, recurring.at)
    /\ recurring.phase = "recalled" =>
          WithinBounds(recurring.template, recurring.again, recurring.againAt)
    /\ recurring.phase = "excluded" =>
          WithinBounds(recurring.template, recurring.again, recurring.at)

\* a daily template from noon of 2025-06-01 to midnight of the day MaxEndDay:
\* the first occurrence is at 00:00 of 2025-06-01, the last on the day before
\* the end date
DailyFilledTheRange ==
    /\ recurring.phase = "called"
    /\ recurring.template.Pattern = RecurrenceDaily
    /\ recurring.template.StartDate = AtClock(0, SlotsPerDay \div 2)
    /\ recurring.template.EndDate = Some(AtClock(MaxEndDay, 0))
    /\ recurring.template.MaxOccurrences = Nil
    /\ recurring.occurrences # <<>>
    /\ recurring.occurrences[1] = AtClock(0, 0)
    /\ recurring.occurrences[Len(recurring.occurrences)] = AtClock(MaxEndDay - 1, 0)

\* C23: adding to the exclusion dates one date equal to the calendar date of
\* a generated occurrence removes exactly that occurrence: no occurrence of
\* the new result is on that date and every other occurrence of the original
\* result is still present.
ExclusionRemovesThatOccurrence ==
    recurring.phase = "excluded"
    => /\ \E i \in DOMAIN recurring.occurrences :
             recurring.occurrences[i] = recurring.removed
       /\ \A j \in DOMAIN recurring.again :
             DateOf(recurring.again[j]) # DateOf(recurring.removed)
       /\ \A i \in DOMAIN recurring.occurrences :
             recurring.occurrences[i] # recurring.removed =>
                \E j \in DOMAIN recurring.again :
                    recurring.again[j] = recurring.occurrences[i]

\* the 09:00 occurrence of a day was removed by an exclusion date at 15:00 of
\* that day, under a count: the others stayed and a later day took the place
ExcludedUnderCount ==
    /\ recurring.phase = "excluded"
    /\ recurring.template.MaxOccurrences = Some(MaxCount)
    /\ recurring.template.StartTimeMinutes = 540
    /\ recurring.removed = recurring.occurrences[2]
    /\ \E i \in DOMAIN recurring.template.ExclusionDates :
          recurring.template.ExclusionDates[i] = AtClock(DateOf(recurring.removed), 30)
    /\ Len(recurring.occurrences) = MaxCount
    /\ Len(recurring.again) = MaxCount
    /\ recurring.again[MaxCount] > recurring.occurrences[MaxCount]

\* C24: two calls of GenerateOccurrences on the same unchanged template, made
\* at any two points in time, return identical sequences; stated for the
\* templates that Validate accepts at the first call.
SameAtAnyTime ==
    (recurring.phase = "recalled"
       /\ RecurringValidate(recurring.template, recurring.at) = "")
    => recurring.again = recurring.occurrences

\* C25: GenerateAppointments returns one appointment per occurrence of
\* GenerateOccurrences, in the same order, each with start = the occurrence,
\* end = occurrence + DurationMinutes, status pending, the supplier, employee,
\* operation, product, quantity and notes of the template and the id of the
\* template; the table of the appointments is as it was.
AppointmentsMirrorOccurrences ==
    recurring.phase = "materialised"
    => LET ra == recurring.template
           occurrences == GenerateOccurrences(ra, recurring.at)
           generated == recurring.generated
       IN  /\ Len(generated) = Len(occurrences)
           /\ \A i \in DOMAIN generated :
                 /\ generated[i].ScheduledStart = occurrences[i]
                 /\ 30 * (generated[i].ScheduledEnd - occurrences[i]) = ra.DurationMinutes
                 /\ generated[i].Status = StatusPending
                 /\ generated[i].SupplierID = ra.SupplierID
                 /\ generated[i].EmployeeID = ra.EmployeeID
                 /\ generated[i].OperationID = ra.OperationID
                 /\ generated[i].ProductID = ra.ProductID
                 /\ generated[i].QuantityToDeliver = ra.QuantityToDeliver
                 /\ generated[i].Notes = ra.Notes
                 /\ generated[i].RecurringAppointmentID = Some(ra.ID)
           /\ appointments = << ProbeRow(1, 2, 1, StatusPending, 2, 4) >>

\* the first generated appointment, 90 minutes from 00:00 of 2025-06-01,
\* overlaps the stored appointment of the same supplier and employee, and is
\* returned all the same
GeneratedOverStored ==
    /\ recurring.phase = "materialised"
    /\ recurring.template.DurationMinutes = 90
    /\ Len(recurring.generated) = MaxEndDay
    /\ recurring.generated[1].ScheduledStart = AtClock(0, 0)
    /\ recurring.generated[1].ScheduledEnd = AtClock(0, 3)
    /\ Clash(recurring.generated[1], appointments[1])

\* C26: validation of a template requires exactly one of EndDate and
\* MaxOccurrences: a template with neither is rejected and a template with
\* both is rejected.
ExactlyOneOfEndAndCount ==
    recurring.phase = "validated"
    => LET ra == recurring.template
       IN  ((ra.EndDate = Nil) = (ra.MaxOccurrences = Nil)) => recurring.err # ""

----------------------------------------------------------------------------
(* Properties: who may update and delete *)

\* C30: only admins and the supplier who owns the appointment can update or
\* delete it: an Update or Delete by an employee, or by a user of role
\* supplier who is not the appointment's supplier, is refused and leaves the
\* appointment unchanged.
OnlyAdminAndOwnerChange ==
    \A id \in DOMAIN appointments, user \in Users :
        ( /\ Found(appointments, id)
          /\ \/ user.Role = "employee"
             \/ user.Role = "supplier" /\ ~IsSupplierOf(user, appointments[id]) )
        => /\ \A req \in AccessUpdateRequests :
                LET r == HandleUpdate(appointments, user, id, req)
                IN  r.err # "" /\ r.db = appointments
           /\ LET r == HandleDelete(appointments, user, id, now)
              IN  r.err # "" /\ r.db = appointments

----------------------------------------------------------------------------
(* Properties: the conflict check of Update *)

UpdateConflictError == "updated appointment conflicts with an existing appointment"

\* a stored non-cancelled appointment other than a itself shares the employee
\* or the supplier with a and overlaps it
ClashesWithOthers(db, a) ==
    \E r \in Rows(db) :
        /\ r.ID # a.ID
        /\ Active(r)
        /\ SharesResource(r, a)
        /\ Overlap(r.ScheduledStart, r.ScheduledEnd, a.ScheduledStart, a.ScheduledEnd)

\* the interval of the Update is not the stored interval
IntervalDiffers(existing, a) ==
    <<existing.ScheduledStart, existing.ScheduledEnd>>
        # <<a.ScheduledStart, a.ScheduledEnd>>

\* the Update of a user who may update gets as far as the conflict check of
\* the repository
ReachesConflictCheck(db, a, req) ==
    /\ req.QuantityToDeliver >= 1
    /\ ~ImmutableState(db[a.ID])
    /\ ReferenceError(a) = ""
    /\ ~OutOfHours(a, RowOf(Operations, a.OperationID))
    /\ Validate(a) = ""

\* C28: Update runs the conflict detector iff the start or the end of the
\* request differs from the stored one: an Update that leaves both unchanged
\* never fails with the conflict error, and an Update that changes one fails
\* with the conflict error exactly when the new interval overlaps another
\* non-cancelled appointment of the same employee or supplier (and the
\* request passes the checks that come before).
UpdateChecksMovedTimesOnly ==
    \A id \in DOMAIN appointments, req \in ScheduleRequests :
        LET existing == appointments[id]
            a == Merge(existing, req)
            changed == IntervalDiffers(existing, a)
            clashes == ClashesWithOthers(appointments, a)
            reaches == ReachesConflictCheck(appointments, a, req)
        IN  \A user \in Users :
              LET r == HandleUpdate(appointments, user, id, req)
              IN  /\ ~changed => r.err # UpdateConflictError
                  /\ r.err = UpdateConflictError => (clashes /\ r.db = appointments)
                  /\ (changed /\ reaches /\ user.Role \in {"admin", "supplier"}) =>
                        (r.err = UpdateConflictError <=> clashes)

\* two appointments next to each other in time: giving the second to the
\* employee of the first and leaving its times alone is not checked and
\* succeeds, stretching the end of the first over the second is refused
\* with the conflict error
MovedIntoClashRefused ==
    /\ Len(appointments) = 2
    /\ appointments[1].EmployeeID # appointments[2].EmployeeID
    /\ appointments[1].SupplierID # appointments[2].SupplierID
    /\ appointments[1].ScheduledStart = appointments[2].ScheduledStart
    /\ Active(appointments[1]) /\ Active(appointments[2])
    /\ \E user \in Users, req \in ScheduleRequests :
         /\ req.EmployeeID = appointments[1].EmployeeID
         /\ req.ScheduledStart = ZeroTime /\ req.ScheduledEnd = ZeroTime
         /\ ClashesWithOthers(appointments, Merge(appointments[2], req))
         /\ HandleUpdate(appointments, user, 2, req).err = ""
    /\ \E user \in Users, req \in ScheduleRequests :
         /\ req.EmployeeID = appointments[1].EmployeeID
         /\ req.ScheduledStart = ZeroTime
         /\ req.ScheduledEnd # ZeroTime
         /\ req.ScheduledEnd # appointments[2].ScheduledEnd
         /\ HandleUpdate(appointments, user, 2, req).err = UpdateConflictError

\* the new interval of an Update overlaps the stored interval of the same
\* appointment
OverlapsOwn(existing, a) ==
    Overlap(existing.ScheduledStart, existing.ScheduledEnd,
            a.ScheduledStart, a.ScheduledEnd)

\* C29: the conflict check leaves out the candidate's own id: an Update that
\* moves an appointment to a new interval overlapping only its own stored
\* interval succeeds, while on Create, the id not assigned yet, no stored
\* appointment is left out.
OwnRowLeftOut ==
    /\ \A id \in DOMAIN appointments, req \in ScheduleRequests :
         LET existing == appointments[id]
             a == Merge(existing, req)
         IN  ( /\ IntervalDiffers(existing, a)
               /\ OverlapsOwn(existing, a)
               /\ ~ClashesWithOthers(appointments, a)
               /\ ReachesConflictCheck(appointments, a, req) )
             => \A user \in Users :
                  user.Role \in {"admin", "supplier"} =>
                     LET r == HandleUpdate(appointments, user, id, req)
                     IN  /\ r.err = ""
                         /\ r.db = [appointments EXCEPT ![id] = a]
    /\ \A req \in CreateRequests :
         LET a == NewAppointment(req)
         IN  /\ \A row \in Rows(appointments) : row.ID # a.ID
             /\ (\E row \in Rows(appointments) : Clash(row, a)) =>
                   \A user \in Users :
                      LET r == HandleCreate(appointments, user, req)
                      IN  r.err # "" /\ r.db = appointments

\* the only appointment of the table, stored from 01:00 to 02:00, can be
\* moved to 01:30-02:30, and a Create of that interval is refused
MovedOverItself ==
    /\ Len(appointments) = 1
    /\ Active(appointments[1])
    /\ appointments[1].ScheduledStart = 2 /\ appointments[1].ScheduledEnd = 4
    /\ \E user \in Users, req \in ScheduleRequests :
         /\ req.ScheduledStart = 3 /\ req.ScheduledEnd = 5
         /\ HandleUpdate(appointments, user, 1, req).err = ""
         /\ HandleUpdate(appointments, user, 1, req).db[1].ScheduledStart = 3
    /\ \E user \in Users, req \in CreateRequests :
         /\ req.ScheduledStart = 3 /\ req.ScheduledEnd = 5
         /\ req.SupplierID = appointments[1].SupplierID
         /\ HandleCreate(appointments, user, req).err =
               "appointment conflicts with an existing appointment"

----------------------------------------------------------------------------
(* Properties: Update and the status *)

\* the fields that only a status change may write
StatusFields(a) == <<a.Status, a.ConfirmedAt, a.CancelledAt, a.CompletedAt>>

\* C31: the status changes through UpdateStatus only: a successful Update
\* leaves the stored status and ConfirmedAt, CancelledAt and CompletedAt of
\* the appointment as they were.
UpdateKeepsStatus ==
    \A user \in Users, id \in DOMAIN appointments, req \in RestatusRequests :
        LET r == HandleUpdate(appointments, user, id, req)
        IN  r.err = "" =>
               StatusFields(r.db[id]) = StatusFields(appointments[id])

\* the time of the change is recorded for the status the appointment has
StampedForStatus(a) ==
    /\ a.Status = StatusConfirmed => a.ConfirmedAt # NilTime
    /\ a.Status = StatusCancelled => a.CancelledAt # NilTime
    /\ a.Status = StatusCompleted => a.CompletedAt # NilTime

\* C35: after any sequence of Create, Update and UpdateStatus a confirmed
\* appointment has ConfirmedAt set, a cancelled one CancelledAt and a
\* completed one CompletedAt.
StatusHasItsStamp ==
    \A id \in DOMAIN appointments : StampedForStatus(appointments[id])

----------------------------------------------------------------------------
(* Properties: biweekly spacing, exclusions and the cap *)

\* positions of two occurrences on the same day of the week with no
\* occurrence on that day of the week between them
ConsecutiveOnWeekday(occurrences, i, j) ==
    /\ i < j
    /\ DateOf(occurrences[i]) % 7 = DateOf(occurrences[j]) % 7
    /\ \A k \in DOMAIN occurrences :
          (i < k /\ k < j) => DateOf(occurrences[k]) % 7 # DateOf(occurrences[i]) % 7

\* C36: for pattern biweekly, whatever the time of day of StartDate and
\* whatever StartTimeMinutes, two consecutive occurrences on the same day of
\* the week are exactly 14 days apart when no date is excluded.
BiweeklyFourteenDaysApart ==
    ( /\ recurring.phase = "generated"
      /\ recurring.template.Pattern = RecurrenceBiweekly
      /\ recurring.template.ExclusionDates = <<>> )
    => \A i, j \in DOMAIN recurring.occurrences :
          ConsecutiveOnWeekday(recurring.occurrences, i, j) =>
             recurring.occurrences[j] - recurring.occurrences[i] = 14 * SlotsPerDay

\* the day is one the pattern of the template asks for
PatternDay(ra, day) ==
    CASE ra.Pattern = RecurrenceDaily -> TRUE
      [] ra.Pattern = RecurrenceWeekly ->
            \E i \in DOMAIN ra.WeekDays : ra.WeekDays[i] = day % 7
      [] ra.Pattern = RecurrenceBiweekly ->
            /\ \E i \in DOMAIN ra.WeekDays : ra.WeekDays[i] = day % 7
            /\ WholeWeeksSince(ra, OccurrenceAt(ra, day)) % 2 = 0
      [] ra.Pattern = RecurrenceMonthly ->
            ra.MonthDay # Nil /\ Day(AtClock(day, 0)) = Deref(ra.MonthDay)
      [] OTHER -> FALSE

\* the days of the calendar from StartDate's day to the end bound that the
\* pattern asks for and no exclusion date removes
OpenDays(ra) ==
    { day \in CalendarDays :
        /\ day >= DateOf(ra.StartDate)
        /\ OccurrenceAt(ra, day) < EndBound(ra, now)
        /\ PatternDay(ra, day)
        /\ ~ExcludedDay(ra, day) }

\* C37: excluded dates do not count toward the cap: with MaxOccurrences = n
\* and at least n days before the end bound that match the pattern and are
\* not excluded, GenerateOccurrences returns exactly n occurrences, none of
\* them on an excluded date.
ExcludedNotCounted ==
    ( /\ recurring.phase = "generated"
      /\ recurring.template.MaxOccurrences # Nil
      /\ Cardinality(OpenDays(recurring.template))
            >= Deref(recurring.template.MaxOccurrences) )
    => /\ Len(recurring.occurrences) = Deref(recurring.template.MaxOccurrences)
       /\ \A i \in DOMAIN recurring.occurrences :
             ~ExcludedDay(recurring.template, DateOf(recurring.occurrences[i]))

\* a day the pattern asks for was excluded before the cap was reached, and the
\* cap was still filled with later days
CapFilledPastExclusion ==
    /\ recurring.phase = "generated"
    /\ recurring.template.MaxOccurrences = Some(MaxCount)
    /\ Len(recurring.occurrences) = MaxCount
    /\ \E day \in CalendarDays :
         /\ ExcludedDay(recurring.template, day)
         /\ PatternDay(recurring.template, day)
         /\ day >= DateOf(recurring.template.StartDate)
         /\ OccurrenceAt(recurring.template, day) < recurring.occurrences[MaxCount]

----------------------------------------------------------------------------
(* Properties: the appointments of a valid template *)

\* C34: every appointment that GenerateAppointments builds from a template
\* that RecurringAppointment.Validate accepts satisfies Appointment.Validate:
\* start before end, at least one hour long, quantity greater than zero. For
\* an occurrence at the first slot of the calendar, which stands for the zero
\* time, the three are stated on their own.
GeneratedAreValid ==
    ( /\ recurring.phase = "materialised"
      /\ RecurringValidate(recurring.template, recurring.at) = "" )
    => \A i \in DOMAIN recurring.generated :
          LET a == recurring.generated[i]
          IN  /\ WellFormed(a)
              /\ a.ScheduledStart # ZeroTime => Validate(a) = ""

----------------------------------------------------------------------------
(* a template in memory and its row: BeforeSave and AfterFind *)

\* the characters '0' to '6'
DigitChars == << "0", "1", "2", "3", "4", "5", "6" >>

\* string(rune('0' + int(day)))
RuneOfDay(day) == DigitChars[day + 1]

\* WeekDay(int(c - '0'))
DayOfRune(c) == CHOOSE day \in 0..(Len(DigitChars) - 1) : DigitChars[day + 1] = c

\* "Convert weekdays slice to string representation for storage": the
\* string is a sequence of characters
RECURSIVE JoinWeekDays(_, _, _)
JoinWeekDays(days, i, weekDaysStr) ==
    IF i > Len(days) THEN weekDaysStr
    ELSE JoinWeekDays(days, i + 1,
            (IF i > 1 THEN Append(weekDaysStr, ",") ELSE weekDaysStr)
               \o << RuneOfDay(days[i]) >>)

\* "Convert string representation of weekdays back to slice", appended to
\* the days the struct holds
RECURSIVE SplitWeekDays(_, _, _)
SplitWeekDays(weekDaysString, i, days) ==
    IF i > Len(weekDaysString) THEN days
    ELSE SplitWeekDays(weekDaysString, i + 1,
            IF weekDaysString[i] # "," THEN Append(days, DayOfRune(weekDaysString[i]))
            ELSE days)

\* the month of the calendar a day falls in, the months counted from June
\* 2025, and the first day of a month
RECURSIVE MonthOf(_, _)
MonthOf(day, month) ==
    IF day < MonthLengths[month] THEN month
    ELSE MonthOf(day - MonthLengths[month], month + 1)

RECURSIVE FirstDayOf(_)
FirstDayOf(month) ==
    IF month = 1 THEN 0 ELSE FirstDayOf(month - 1) + MonthLengths[month - 1]

\* date.Format(time.RFC3339): the text names the month, the day of the
\* month, the hour and the minute of the time; the seconds are zero and the
\* location is the one location of the model
FormatRFC3339(t) ==
    [ text |-> << MonthOf(DateOf(t), 1), Day(t),
                  (t % SlotsPerDay) \div MinDuration,
                  ((t % SlotsPerDay) % MinDuration) * 30 >> ]

\* time.Parse(time.RFC3339, dateStr)
ParseRFC3339(dateStr) ==
    LET text == dateStr[1].text
    IN  AtClock(FirstDayOf(text[1]) + text[2] - 1,
                text[3] * MinDuration + text[4] \div 30)

\* the text between two quotes is a date that Format wrote
ParsesRFC3339(dateStr) == Len(dateStr) = 1 /\ "text" \in DOMAIN dateStr[1]

\* a character of the JSON string
Char(c) == [ ch |-> c ]
IsChar(token, c) == "ch" \in DOMAIN token /\ token.ch = c

\* "Convert exclusion dates to JSON string", after the opening bracket
RECURSIVE JoinExclusionDates(_, _, _)
JoinExclusionDates(dates, i, exclusionDatesStr) ==
    IF i > Len(dates) THEN Append(exclusionDatesStr, Char("]"))
    ELSE JoinExclusionDates(dates, i + 1,
            (IF i > 1 THEN Append(exclusionDatesStr, Char(",")) ELSE exclusionDatesStr)
               \o << Char("\""), FormatRFC3339(dates[i]), Char("\"") >>)

\* "Parse exclusion dates from JSON": the loop over the characters
RECURSIVE ParseExclusionJSON(_, _, _, _, _)
ParseExclusionJSON(json, i, inQuotes, dateStr, dates) ==
    IF i > Len(json) THEN dates
    ELSE IF IsChar(json[i], "\"")
        THEN ParseExclusionJSON(json, i + 1, ~inQuotes, <<>>,
                IF inQuotes /\ ParsesRFC3339(dateStr)
                THEN Append(dates, ParseRFC3339(dateStr))
                ELSE dates)
    ELSE IF inQuotes
        THEN ParseExclusionJSON(json, i + 1, inQuotes, Append(dateStr, json[i]), dates)
    ELSE ParseExclusionJSON(json, i + 1, inQuotes, dateStr, dates)

\* BeforeSave, called at time t: the struct with its two strings, and the
\* error of Validate
BeforeSave(ra, t) ==
    LET strings ==
          [ ra EXCEPT
              !.WeekDaysString =
                  IF Len(ra.WeekDays) > 0 THEN JoinWeekDays(ra.WeekDays, 1, <<>>)
                  ELSE @,
              !.ExclusionJSON =
                  IF Len(ra.ExclusionDates) > 0
                  THEN JoinExclusionDates(ra.ExclusionDates, 1, << Char("[") >>)
                  ELSE @ ]
    IN  [ ra |-> strings, err |-> RecurringValidate(strings, t) ]

\* AfterFind on the struct that was filled from a row
AfterFind(ra) ==
    [ ra EXCEPT
        !.WeekDays =
            IF ra.WeekDaysString # <<>> THEN SplitWeekDays(ra.WeekDaysString, 1, @)
            ELSE @,
        !.ExclusionDates =
            IF ra.ExclusionJSON # <<>>
            THEN ParseExclusionJSON(ra.ExclusionJSON, 1, FALSE, <<>>, <<>>)
            ELSE @ ]

\* the fields that have no column: gorm:"-"
NoColumn == { "WeekDays", "ExclusionDates" }

\* the row of a struct, and the struct a row is read into
RowOfTemplate(ra) == [ f \in (DOMAIN ra) \ NoColumn |-> ra[f] ]
TemplateOfRow(row) == row @@ [ WeekDays |-> <<>>, ExclusionDates |-> <<>> ]

\* the lists a caller sets: Monday 2025-06-09 at 15:00, Wednesday 2025-06-11
StoredExclusionLists ==
    { <<>>, << AtClock(8, 30) >>, << AtClock(8, 30), AtClock(10, 0) >> }

StoredPatterns == { RecurrenceDaily, RecurrenceWeekly }

\* a daily or weekly delivery from 2025-06-01 to the end of August at 09:00,
\* not saved yet
NewTemplates ==
    { [ Pattern |-> pattern,
        StartDate |-> AtClock(0, 0),
        EndDate |-> Some(AtClock(MaxEndDay, 0)),
        MaxOccurrences |-> Nil,
        StartTimeMinutes |-> 540,
        WeekDays |-> weekDays,
        WeekDaysString |-> <<>>,
        MonthDay |-> Nil,
        ExclusionDates |-> exclusionDates,
        ExclusionJSON |-> <<>> ] @@ b :
        pattern \in StoredPatterns, weekDays \in WeekDaySets,
        exclusionDates \in StoredExclusionLists,
        b \in { x \in Bookings : x.DurationMinutes = 60 } }

\* the lists of a struct
ListsOf(ra) == [ WeekDays |-> ra.WeekDays, ExclusionDates |-> ra.ExclusionDates ]

InitStore ==
    /\ appointments = <<>>
    /\ now = 1
    /\ inflight = [p \in Creators |-> Idle]
    /\ stale = {}
    /\ notifications = NoNotifications
    /\ probe = NoProbe
    /\ recurring \in [ phase : {"memory"}, template : NewTemplates,
                       row : {Nil}, saved : {Nil} ]

\* the caller changes the pattern and the two lists of the struct it holds
EditTemplate ==
    /\ recurring.phase \in {"memory", "saved", "loaded"}
    /\ \E pattern \in StoredPatterns, weekDays \in WeekDaySets,
          exclusionDates \in StoredExclusionLists :
         recurring' = [ recurring EXCEPT
                          !.phase = "memory",
                          !.template = [ @ EXCEPT !.Pattern = pattern,
                                                  !.WeekDays = weekDays,
                                                  !.ExclusionDates = exclusionDates ] ]
    /\ UNCHANGED <<appointments, now, inflight, stale, probe, notifications>>

\* db.Save of the struct: BeforeSave runs on it, and the row is written when
\* it returns no error
SaveTemplate ==
    /\ recurring.phase = "memory"
    /\ LET s == BeforeSave(recurring.template, now)
       IN  recurring' =
             IF s.err # ""
             THEN [ recurring EXCEPT !.template = s.ra ]
             ELSE [ phase |-> "saved",
                    template |-> s.ra,
                    row |-> Some(RowOfTemplate(s.ra)),
                    saved |-> Some(ListsOf(recurring.template)) ]
    /\ UNCHANGED <<appointments, now, inflight, stale, probe, notifications>>

\* the row is read into a new struct and AfterFind runs on it
LoadTemplate ==
    /\ recurring.phase \in {"memory", "saved"}
    /\ recurring.row # Nil
    /\ recurring' = [ recurring EXCEPT
                        !.phase = "loaded",
                        !.template = AfterFind(TemplateOfRow(Deref(recurring.row))) ]
    /\ UNCHANGED <<appointments, now, inflight, stale, probe, notifications>>

NextStore ==
    \/ EditTemplate
    \/ SaveTemplate
    \/ LoadTemplate

SpecStore == InitStore /\ [][NextStore]_vars

----------------------------------------------------------------------------
(* Properties: a template saved and loaded *)

\* the days of a list of days of the week, and the calendar dates of a list
\* of times
DaysIn(weekDays) == { weekDays[i] : i \in DOMAIN weekDays }
DatesIn(dates) == { DateOf(dates[i]) : i \in DOMAIN dates }

\* C38: a template saved and loaded back has the weekday set and the
\* exclusion calendar dates it was saved with, after every sequence of edits
\* and saves; a list that was emptied before the save is empty after the
\* load.
SavedIsLoaded ==
    (recurring.phase = "loaded" /\ recurring.saved # Nil)
    => LET saved == Deref(recurring.saved)
           loaded == recurring.template
       IN  /\ DaysIn(loaded.WeekDays) = DaysIn(saved.WeekDays)
           /\ DatesIn(loaded.ExclusionDates) = DatesIn(saved.ExclusionDates)
           /\ saved.WeekDays = <<>> => loaded.WeekDays = <<>>
           /\ saved.ExclusionDates = <<>> => loaded.ExclusionDates = <<>>

----------------------------------------------------------------------------
(* notifications: the queue worker and the retries of SendNotification;    *)
(* the time is counted in minutes here                                     *)

NotificationStatusPending == "pending"
NotificationStatusSending == "sending"
NotificationStatusSent == "sent"
NotificationStatusFailed == "failed"

\* gorm:"default:3" of MaxRetries
DefaultMaxRetries == 3

\* the last minute the clock reaches, and the minutes of one step of it
MaxMinute == 41
MinuteStep == 5

\* "Lock for 5 minutes"
LockMinutes == 5

\* 1 << n
ShiftLeft(n) == 2 ^ n

\* mutant: a notification that reached MaxRetries is queued once more
SendNotificationRetryAtMax(notification, errorMsg, t) ==
    IF errorMsg # ""
    THEN LET failed == [ notification EXCEPT
                           !.Status = NotificationStatusFailed,
                           !.ErrorMessage = Some(errorMsg),
                           !.RetryCount = @ + 1 ]
             backoffMinutes == 5 * ShiftLeft(failed.RetryCount - 1)
         IN  IF failed.RetryCount <= failed.MaxRetries
             THEN [ failed EXCEPT !.ScheduledFor = Some(t + backoffMinutes),
                                  !.Status = NotificationStatusPending ]
             ELSE failed
    ELSE [ notification EXCEPT !.Status = NotificationStatusSent,
                               !.SentAt = Some(t) ]

\* SendNotification at time t: errorMsg is what the lookup of the recipient,
\* the preferences and the sending left, "" for none; the row that is
\* stored at the end
SendNotification(notification, errorMsg, t) ==
    IF errorMsg # ""
    THEN LET failed == [ notification EXCEPT
                           !.Status = NotificationStatusFailed,
                           !.ErrorMessage = Some(errorMsg),
                           !.RetryCount = @ + 1 ]
             backoffMinutes == 5 * ShiftLeft(failed.RetryCount - 1)
         IN  IF failed.RetryCount < failed.MaxRetries
             THEN [ failed EXCEPT !.ScheduledFor = Some(t + backoffMinutes),
                                  !.Status = NotificationStatusPending ]
             ELSE failed
    ELSE [ notification EXCEPT !.Status = NotificationStatusSent,
                               !.SentAt = Some(t) ]

\* what a send can leave in errorMsg
ErrorMessages == { "", "recipient email address not available" }

\* notifications as CreateNotification and EnqueueNotification leave them:
\* pending, never tried, to be sent at once or at a scheduled minute, with
\* the default of MaxRetries or another positive number
NewNotifications ==
    [ Status : {NotificationStatusPending},
      RetryCount : {0},
      MaxRetries : {1, DefaultMaxRetries, DefaultMaxRetries + 1},
      ScheduledFor : {Nil, Some(1 + 2 * MinuteStep)},
      SentAt : {Nil},
      ErrorMessage : {Nil} ]

NewQueueItem ==
    [ Status |-> NotificationStatusPending,
      LockedUntil |-> Nil,
      ProcessedAt |-> Nil ]

InitNotify ==
    /\ appointments = <<>>
    /\ now = 1
    /\ inflight = [p \in Creators |-> Idle]
    /\ stale = {}
    /\ probe = NoProbe
    /\ recurring = NoTemplate
    /\ notifications \in [ phase : {"queued"},
                           notification : NewNotifications,
                           item : {NewQueueItem},
                           attempts : {0} ]

\* queueRepo.GetPendingByQueue: the item is in the batch
GetPendingByQueue(item) == item.Status = NotificationStatusPending

\* ProcessQueue on the item: it is locked, then put back when the
\* notification is scheduled for later, and handed to a worker otherwise
ProcessQueue ==
    /\ notifications.phase = "queued"
    /\ GetPendingByQueue(notifications.item)
    /\ LET locked == [ notifications.item EXCEPT
                         !.LockedUntil = Some(now + LockMinutes),
                         !.Status = NotificationStatusSending ]
           notification == notifications.notification
       IN  notifications' =
             IF notification.ScheduledFor # Nil /\ Deref(notification.ScheduledFor) > now
             THEN [ notifications EXCEPT
                      !.item = [ locked EXCEPT !.Status = NotificationStatusPending,
                                               !.LockedUntil = Nil ] ]
             ELSE [ notifications EXCEPT !.phase = "sending", !.item = locked ]
    /\ UNCHANGED <<appointments, now, inflight, stale, probe, recurring>>

\* the worker: SendNotification, then the item takes the status of the
\* notification
Worker(errorMsg) ==
    /\ notifications.phase = "sending"
    /\ LET notification == SendNotification(notifications.notification, errorMsg, now)
       IN  notifications' =
             [ phase |-> "queued",
               notification |-> notification,
               item |-> [ notifications.item EXCEPT
                            !.ProcessedAt = Some(now),
                            !.Status = notification.Status ],
               attempts |-> notifications.attempts + 1 ]
    /\ UNCHANGED <<appointments, now, inflight, stale, probe, recurring>>

\* time passes
Minutes ==
    /\ now < MaxMinute
    /\ now' = now + MinuteStep
    /\ UNCHANGED <<appointments, inflight, stale, probe, recurring, notifications>>

NextNotify ==
    \/ ProcessQueue
    \/ \E errorMsg \in ErrorMessages : Worker(errorMsg)
    \/ Minutes

SpecNotify == InitNotify /\ [][NextNotify]_vars

----------------------------------------------------------------------------
(* Properties: the retries of a notification *)

\* the notification is out of retries
Exhausted(notification) ==
    /\ notification.Status = NotificationStatusFailed
    /\ notification.RetryCount >= notification.MaxRetries

\* one step of the life of a notification
RetryStep ==
    LET old == notifications.notification
        new == notifications'.notification
        failedSend == /\ notifications'.attempts = notifications.attempts + 1
                      /\ new.Status # NotificationStatusSent
    IN  /\ failedSend =>
             /\ new.RetryCount = old.RetryCount + 1
             /\ new.RetryCount < new.MaxRetries =>
                   /\ new.Status = NotificationStatusPending
                   /\ new.ScheduledFor # Nil
                   /\ Deref(new.ScheduledFor) > now
             /\ new.RetryCount >= new.MaxRetries =>
                   new.Status = NotificationStatusFailed
        /\ Exhausted(old) =>
             /\ new = old
             /\ notifications'.attempts = notifications.attempts
        /\ notifications'.attempts <= new.MaxRetries

DocumentedDelays == << 5, 15, 45 >>

\* C40: the retry after the first, second and third failed attempt of a
\* notification is scheduled 5, 15 and 45 minutes later.
DelaysAsDocumented ==
    notifications.phase = "sending"
    => \A errorMsg \in ErrorMessages \ {""} :
          LET new == SendNotification(notifications.notification, errorMsg, now)
          IN  ( /\ new.Status = NotificationStatusPending
                /\ new.RetryCount \in DOMAIN DocumentedDelays )
              => Deref(new.ScheduledFor) - now = DocumentedDelays[new.RetryCount]

----------------------------------------------------------------------------
(* concurrent UpdateStatus and Update requests on one appointment: every   *)
(* read and the write of a request are steps of their own, and steps of    *)
(* other requests may come between them                                    *)

NonAdmins == { user \in Users : user.Role # "admin" }

\* handler UpdateStatus: GetByID and hasStatusChangePermission
StatusCheck(p, user, id, req) ==
    /\ inflight[p] = Idle
    /\ Found(appointments, id)
    /\ req.Status # ""
    /\ inflight' =
         IF hasStatusChangePermission(user, appointments[id], req.Status)
         THEN [inflight EXCEPT ![p] =
                 [ phase |-> "permitted", id |-> id, req |-> req ]]
         ELSE inflight
    /\ UNCHANGED <<appointments, now, stale, probe, recurring, notifications>>

\* repository UpdateStatus: FindByID, then the status and its time are set
\* on the row that was read
StatusFind(p) ==
    /\ inflight[p].phase = "permitted"
    /\ inflight' =
         IF ~Found(appointments, inflight[p].id) THEN [inflight EXCEPT ![p] = Idle]
         ELSE [inflight EXCEPT ![p] =
                 [ phase |-> "found",
                   appointment |-> Stamp(appointments[inflight[p].id],
                                         inflight[p].req.Status,
                                         inflight[p].req.Reason, now) ]]
    /\ UNCHANGED <<appointments, now, stale, probe, recurring, notifications>>

\* repository UpdateStatus: db.Save of that row, all its fields
StatusSave(p) ==
    /\ inflight[p].phase = "found"
    /\ appointments' =
         [appointments EXCEPT ![inflight[p].appointment.ID] = inflight[p].appointment]
    /\ inflight' = [inflight EXCEPT ![p] =
                      [ phase |-> "done", kind |-> "status",
                        wrote |-> inflight[p].appointment ]]
    /\ UNCHANGED <<now, stale, probe, recurring, notifications>>

\* handler Update: GetByID, the test of the role, and the request merged
\* into the row that was read
UpdateLoad(p, user, id, req) ==
    /\ inflight[p] = Idle
    /\ Found(appointments, id)
    /\ inflight' =
         IF /\ user.Role \in {"admin", "supplier"}
            /\ user.Role = "supplier" => SupplierMayChange(user, appointments[id])
            /\ req.QuantityToDeliver >= 1
         THEN [inflight EXCEPT ![p] =
                 [ phase |-> "merged", appointment |-> Merge(appointments[id], req) ]]
         ELSE inflight
    /\ UNCHANGED <<appointments, now, stale, probe, recurring, notifications>>

\* service Update and repository Update up to the conflict check, on the
\* table as it is now
UpdateCheck(p) ==
    /\ inflight[p].phase = "merged"
    /\ inflight' =
         IF ServiceUpdate(appointments, inflight[p].appointment).err = ""
         THEN [inflight EXCEPT ![p] =
                 [ phase |-> "checked", appointment |-> inflight[p].appointment ]]
         ELSE [inflight EXCEPT ![p] = Idle]
    /\ UNCHANGED <<appointments, now, stale, probe, recurring, notifications>>

\* repository Update: db.Save of the merged row, all its fields
UpdateSave(p) ==
    /\ inflight[p].phase = "checked"
    /\ appointments' =
         [appointments EXCEPT ![inflight[p].appointment.ID] = inflight[p].appointment]
    /\ inflight' = [inflight EXCEPT ![p] =
                      [ phase |-> "done", kind |-> "update",
                        wrote |-> inflight[p].appointment ]]
    /\ UNCHANGED <<now, stale, probe, recurring, notifications>>

\* the response is sent
Respond(p) ==
    /\ inflight[p].phase = "done"
    /\ inflight' = [inflight EXCEPT ![p] = Idle]
    /\ UNCHANGED <<appointments, now, stale, probe, recurring, notifications>>

\* requests that give the appointment a new end, one hour or 90 minutes
\* after its start at 01:00
RaceUpdateRequests ==
    { r \in MoveRequests :
        /\ r.SupplierID = 0 /\ r.EmployeeID = 0
        /\ r.ScheduledStart = ZeroTime
        /\ r.ScheduledEnd \in {4, 5} }

\* the table holds the pending appointment of supplier 1 and employee 2 from
\* 01:00 to 02:00
InitStatusRace ==
    /\ appointments = << ProbeRow(1, 1, 2, StatusPending, 2, 4) >>
    /\ now = 1
    /\ inflight = [p \in Creators |-> Idle]
    /\ stale = {}
    /\ notifications = NoNotifications
    /\ probe = NoProbe
    /\ recurring = NoTemplate

\* UpdateStatus requests of users who are not admins, side by side
NextStatusRace ==
    \/ \E p \in Creators, user \in NonAdmins, id \in DOMAIN appointments,
          req \in UpdateStatusRequests : StatusCheck(p, user, id, req)
    \/ \E p \in Creators : StatusFind(p)
    \/ \E p \in Creators : StatusSave(p)
    \/ \E p \in Creators : Respond(p)
    \/ Tick

SpecStatusRace == InitStatusRace /\ [][NextStatusRace]_vars

\* the request that updates and the request that changes the status
Updater == 1
Changer == 2

\* one Update at a time beside one UpdateStatus at a time
NextUpdateRace ==
    \/ \E user \in NonAdmins, id \in DOMAIN appointments,
          req \in UpdateStatusRequests : StatusCheck(Changer, user, id, req)
    \/ StatusFind(Changer)
    \/ StatusSave(Changer)
    \/ \E user \in Users, id \in DOMAIN appointments,
          req \in RaceUpdateRequests : UpdateLoad(Updater, user, id, req)
    \/ UpdateCheck(Updater)
    \/ UpdateSave(Updater)
    \/ \E p \in Creators : Respond(p)

SpecUpdateRace == InitStatusRace /\ [][NextUpdateRace]_vars

----------------------------------------------------------------------------
(* Properties: concurrent requests on one appointment *)

\* a change of status that the table has for some role
InTable(from, to) == \E role \in {"supplier", "employee"} :
                        <<role, from, to>> \in TransitionTable

\* C32: under any interleaving of concurrent UpdateStatus requests of users
\* who are not admins, every committed change of status is a transition of
\* the table from the status that was stored immediately before the commit:
\* the stored status never goes pending, cancelled, confirmed.
CommitsFollowTable ==
    [][ \A id \in DOMAIN appointments :
          appointments'[id].Status # appointments[id].Status =>
             InTable(appointments[id].Status, appointments'[id].Status) ]_vars

\* the request of p wrote its row and has not been answered yet
Wrote(flight, p, kind) == flight[p].phase = "done" /\ flight[p].kind = kind

\* one step leaves a cancelled or completed appointment as it is, and after
\* it the row holds what an Update and an UpdateStatus of it wrote
RaceStep ==
    /\ \A id \in DOMAIN appointments :
          Terminal(appointments[id]) =>
             appointments'[id].Status = appointments[id].Status
    /\ \A p, q \in Creators :
          (Wrote(inflight', p, "update") /\ Wrote(inflight', q, "status")) =>
             LET row == appointments'[inflight'[p].wrote.ID]
             IN  /\ row.ScheduledStart = inflight'[p].wrote.ScheduledStart
                 /\ row.ScheduledEnd = inflight'[p].wrote.ScheduledEnd
                 /\ row.Status = inflight'[q].wrote.Status

\* C33: an Update that runs concurrently with an UpdateStatus on the same
\* appointment does not lose either write and never undoes a terminal state:
\* once both have written, the row holds the times of the Update and the
\* status of the UpdateStatus, and a cancelled or completed appointment is
\* not put back to an earlier status.
NoWriteLost == [][RaceStep]_vars

====
